---- MODULE Spec2Model ----
(***************************************************************************)
(* The schema-less object store of the gateway (package store, Postgres    *)
(* backend): the rows of the "objects" table, the store's operations and   *)
(* the compilation of the query language to a SQL predicate.               *)
(*                                                                         *)
(* Text (query text, SQL text, string values) is a sequence of lexical     *)
(* units, each a TLA+ string: a unit is one character of a string value    *)
(* (such as "'" or ")") or one word of SQL (such as "AND").  The backend   *)
(* decides where a quoted operand ends by scanning for the closing quote,  *)
(* as an SQL engine does.                                                  *)
(***************************************************************************)
EXTENDS Integers, Sequences, FiniteSets, TLC

\* ------------------------------------------------------------------ bounds
\* The largest identifier the SERIAL column hands out in a run.
MaxId == 2
\* The length of the arrays passed to a bulk Insert.
BatchLen == 2
\* The most rows the schema table holds in a run.
MaxRows == 2
\* The largest capacity an LRU cache is made with.
MaxSize == 2

\* The (tenant, collection) pairs the callers use: one pair, one that differs
\* from it in the tenant only and one that differs in the collection only.
Scopes == {<<1, "c1">>, <<2, "c1">>, <<1, "c2">>}

\* ------------------------------------------------ Go values (interface{})
Str(s) == [t |-> "string", v |-> s]
Float64(s) == [t |-> "float64", v |-> s]
GoInt(s) == [t |-> "int", v |-> s]
Uint64(n) == [t |-> "uint64", v |-> <<ToString(n)>>]
Int64(n) == [t |-> "int64", v |-> <<ToString(n)>>]
Bool(s) == [t |-> "bool", v |-> s]
Nil == [t |-> "nil", v |-> <<>>]
\* A value encoding/json cannot serialise (a channel, a function).
Chan == [t |-> "chan", v |-> <<>>]
GoMap(f) == [t |-> "map", v |-> f]
Slice(s) == [t |-> "slice", v |-> s]

\* strconv.Atoi on a run of digits
Atoi(tok) == CHOOSE n \in 0..(MaxId + 8) : ToString(n) = tok
IsDigits(tok) == \E n \in 0..(MaxId + 8) : ToString(n) = tok

\* delete(m, k) and m[k] = val on a Go map
MapDelete(f, k) == [x \in (DOMAIN f) \ {k} |-> f[x]]
MapSet(f, k, val) == [x \in (DOMAIN f) \cup {k} |-> IF x = k THEN val ELSE f[x]]

\* ---------------------------------------------------------- encoding/json
\* A JSON text is modelled by its parsed form: an object is a function from
\* keys to JSON values [j, v]; numbers lose the Go type they were written from.
RECURSIVE Marshalable(_)
Marshalable(g) ==
    CASE g.t = "chan" -> FALSE
      [] g.t = "map" -> \A k \in DOMAIN g.v : Marshalable(g.v[k])
      [] OTHER -> TRUE

RECURSIVE Marshal(_)
Marshal(g) ==
    CASE g.t = "string" -> [j |-> "string", v |-> g.v]
      [] g.t \in {"float64", "int", "int64", "uint64"} -> [j |-> "number", v |-> g.v]
      [] g.t = "bool" -> [j |-> "bool", v |-> g.v]
      [] g.t = "map" -> [j |-> "object", v |-> [k \in DOMAIN g.v |-> Marshal(g.v[k])]]
      [] OTHER -> [j |-> "null", v |-> <<>>]

RECURSIVE Unmarshal(_)
Unmarshal(js) ==
    CASE js.j = "string" -> Str(js.v)
      [] js.j = "number" -> Float64(js.v)
      [] js.j = "bool" -> Bool(js.v)
      [] js.j = "object" -> GoMap([k \in DOMAIN js.v |-> Unmarshal(js.v[k])])
      [] OTHER -> Nil

\* ------------------------------------------------------------------ state
VARIABLES
    rows,    \* the committed rows of table objects: [id, account_id, collection, object]
    nextId,  \* the next value of the SERIAL sequence behind objects.id
    op       \* the last Store call: its arguments and what it returned; bound is
             \* the argument list passed to the backend with the SELECT statement,
             \* ended how its transaction was ended ("none": none was begun;
             \* "commit", "rollback"; "open": it was left open)
VARIABLES
    schemaTable,   \* table schema: [exists, versions], versions its rows in order
    objectsTable,  \* whether table objects and its two indexes exist
    mig            \* the running Migrate of every process

VARIABLES
    compile,       \* the last run of the compiler: [ast, param, q]
    mem,           \* the memory store: [storage, index] and its last call
    lru,           \* the LRU cache: [size, entries], most recently used first, and
                   \* its last call
    tx             \* the Delete and the Insert that run statement by statement next
                   \* to other callers: [del, ins]

VARIABLES
    soap           \* one SOAP remote endpoint: its row, its persisted status, the
                   \* processWsdl runs started for it and the last controller call
VARIABLES
    push           \* the push channels and devices of one topic of one remote
                   \* endpoint, the clock, and the AddTopic call of every session
VARIABLES
    router         \* a Router: its MUXRouter and the last ParseRoutes
VARIABLES
    jar            \* table soap_remote_endpoints, the jar files of one node, the
                   \* notification under way and the last one the listener got

mvars == <<schemaTable, objectsTable, mig>>
svars == <<rows, nextId, op>>
\* what neither the store nor Migrate touches
yvars == <<soap, push, router, jar>>
xvars == <<compile, mem, lru, tx, yvars>>
\* what the packages outside the object store leave alone
zvars == <<svars, mvars, compile, mem, lru, tx>>
vars == <<rows, nextId, op, schemaTable, objectsTable, mig, compile, mem, lru, tx,
          soap, push, router, jar>>

NoOp == [name |-> "none", account |-> 0, collection |-> "", id |-> 0, arg |-> Nil,
         query |-> 0, params |-> 0, ret |-> "ok", results |-> <<>>,
         tx |-> FALSE, sql |-> FALSE, failed |-> 0, bound |-> <<>>,
         ended |-> "none"]

\* The errors a call returns as a value; "panic" is a run-time panic, "ok" no error.
ReturnedErrors == {"SyntaxError", "BindError", "NotFound", "BackendError", "MarshalError"}

Row(id, a, c, js) == [id |-> id, account_id |-> a, collection |-> c, object |-> js]

\* the same lookup without the tenant and collection predicates
ByIDAnyTenant(rs, a, c, id) == {r \in rs : r.id = id}
\* WHERE id = $1 AND account_id = $2 AND collection = $3, with bound arguments
ByID(rs, a, c, id) == {r \in rs : r.id = id /\ r.account_id = a /\ r.collection = c}

\* a decoding that attaches another identifier than the row's
DecodeOtherId(r) == GoMap(MapSet(Unmarshal(r.object).v, "$id", Int64(r.id + 1)))
\* json.Unmarshal of the row's object, then result["$id"] = o.ID
Decode(r) == GoMap(MapSet(Unmarshal(r.object).v, "$id", Int64(r.id)))

\* The ids of a set of rows in ascending order
RECURSIVE SortedIds(_)
SortedIds(S) ==
    IF S = {} THEN <<>>
    ELSE LET m == CHOOSE x \in S : \A y \in S : x <= y
         IN <<m>> \o SortedIds(S \ {m})

\* ------------------------------------------------------------- documents
A == <<"a">>
B == <<"b">>
\* Documents as the callers hold them: decoded JSON objects.
Docs == {GoMap([k \in {"x"} |-> Str(A)]),
         GoMap([k \in {"x", "$id"} |-> IF k = "x" THEN Str(B) ELSE Float64(<<"7">>)])}
\* A JSON object that holds a value json.Marshal rejects
BadDoc == GoMap([k \in {"x"} |-> Chan])
\* A batch element that is not a JSON object
NotAMap == Str(A)
Elems == Docs \cup {BadDoc, NotAMap}
\* Batches: a document, a document json.Marshal rejects, a non-object
BatchElems == {GoMap([k \in {"x"} |-> Str(A)]), BadDoc, NotAMap}
Batches == {Slice(s) : s \in [1..BatchLen -> BatchElems]}

\* -------------------------------------------------------------- SelectByID
SelectByIDResult(rs, a, c, id, fault) ==
    LET m == ByID(rs, a, c, id) IN
    IF fault THEN [ret |-> "BackendError", results |-> <<>>]
    ELSE IF m = {} THEN [ret |-> "NotFound", results |-> <<>>]
    ELSE [ret |-> "ok", results |-> <<Decode(CHOOSE r \in m : TRUE)>>]

SelectByID(a, c, id, fault) ==
    LET res == SelectByIDResult(rows, a, c, id, fault) IN
    /\ op' = [NoOp EXCEPT !.name = "SelectByID", !.account = a, !.collection = c,
                          !.id = id, !.ret = res.ret, !.results = res.results,
                          !.sql = TRUE]
    /\ UNCHANGED <<rows, nextId, mvars, xvars>>

\* -------------------------------------------------------------- UpdateByID
\* UPDATE objects SET object = $1 WHERE id = $2 AND account_id = $3 AND collection = $4
\* an update that merges the new body into the old one: object = object || $1
UpdateRowsMerge(rs, a, c, id, js) ==
    {IF r \in ByID(rs, a, c, id)
     THEN [r EXCEPT !.object.v = [k \in DOMAIN @ \cup DOMAIN js.v |->
                                     IF k \in DOMAIN js.v THEN js.v[k] ELSE @[k]]]
     ELSE r : r \in rs}
UpdateRows(rs, a, c, id, js) ==
    {IF r \in ByID(rs, a, c, id) THEN [r EXCEPT !.object = js] ELSE r : r \in rs}

\* an update that serialises the document as it came, "$id" included
UpdateByIDKeepsId(rs, a, c, id, object, fault) ==
    IF object.t # "map" THEN [ret |-> "panic", results |-> <<>>, rows |-> rs, sql |-> FALSE]
    ELSE IF ~Marshalable(object)
    THEN [ret |-> "MarshalError", results |-> <<>>, rows |-> rs, sql |-> FALSE]
    ELSE IF fault
    THEN [ret |-> "BackendError", results |-> <<>>, rows |-> rs, sql |-> TRUE]
    ELSE [ret |-> "ok",
          results |-> <<GoMap(MapSet(object.v, "$id", Uint64(id)))>>,
          rows |-> UpdateRows(rs, a, c, id, Marshal(object)), sql |-> TRUE]
UpdateByIDResult(rs, a, c, id, object, fault) ==
    IF object.t # "map" THEN [ret |-> "panic", results |-> <<>>, rows |-> rs, sql |-> FALSE]
    ELSE LET stripped == GoMap(MapDelete(object.v, "$id")) IN
         IF ~Marshalable(stripped)
         THEN [ret |-> "MarshalError", results |-> <<>>, rows |-> rs, sql |-> FALSE]
         ELSE IF fault
         THEN [ret |-> "BackendError", results |-> <<>>, rows |-> rs, sql |-> TRUE]
         ELSE [ret |-> "ok",
               results |-> <<GoMap(MapSet(stripped.v, "$id", Uint64(id)))>>,
               rows |-> UpdateRows(rs, a, c, id, Marshal(stripped)), sql |-> TRUE]

UpdateByID(a, c, id, object, fault) ==
    LET res == UpdateByIDResult(rows, a, c, id, object, fault) IN
    /\ rows' = res.rows
    /\ op' = [NoOp EXCEPT !.name = "UpdateByID", !.account = a, !.collection = c,
                          !.id = id, !.arg = object, !.ret = res.ret,
                          !.results = res.results, !.sql = res.sql]
    /\ UNCHANGED <<nextId, mvars, xvars>>

\* -------------------------------------------------------------- DeleteByID
\* a delete that treats an absent row as an error and removes nothing
DeleteByIDStrict(rs, a, c, id, fault) ==
    LET m == ByID(rs, a, c, id) IN
    IF fault THEN [ret |-> "BackendError", results |-> <<>>, rows |-> rs]
    ELSE IF m = {} THEN [ret |-> "NotFound", results |-> <<>>, rows |-> rs]
    ELSE [ret |-> "ok", results |-> <<Decode(CHOOSE r \in m : TRUE)>>, rows |-> rs]
\* DELETE FROM objects WHERE id = $1 AND account_id = $2 AND collection = $3 RETURNING *
DeleteByIDResult(rs, a, c, id, fault) ==
    LET m == ByID(rs, a, c, id) IN
    IF fault THEN [ret |-> "BackendError", results |-> <<>>, rows |-> rs]
    ELSE IF m = {} THEN [ret |-> "ok", results |-> <<>>, rows |-> rs]
    ELSE [ret |-> "ok", results |-> <<Decode(CHOOSE r \in m : TRUE)>>, rows |-> rs \ m]

DeleteByID(a, c, id, fault) ==
    LET res == DeleteByIDResult(rows, a, c, id, fault) IN
    /\ rows' = res.rows
    /\ op' = [NoOp EXCEPT !.name = "DeleteByID", !.account = a, !.collection = c,
                          !.id = id, !.ret = res.ret, !.results = res.results,
                          !.sql = TRUE]
    /\ UNCHANGED <<nextId, mvars, xvars>>

\* ------------------------------------------------------------ transactions
\* The deferred function of Insert and Delete: roll back when the named result
\* err is set, commit otherwise.  errSet is the value of err when the deferred
\* function runs; a panic unwinds through it with err still nil.
\* a deferred function that commits whatever err holds
TxEndCommits(errSet, before, inTx, commitFails) == inTx
TxEnd(errSet, before, inTx, commitFails) ==
    IF errSet \/ commitFails THEN before ELSE inTx
\* the call the deferred function makes on the transaction
Deferred(errSet) == IF errSet THEN "rollback" ELSE "commit"

\* ------------------------------------------------------------------ Insert
\* an add that serialises the document as it came, "$id" included
AddKeepsId(st, a, c, object, k, rejected) ==
    IF object.t # "map" THEN [st EXCEPT !.ret = "panic"]
    ELSE IF ~Marshalable(object) THEN [st EXCEPT !.ret = "MarshalError", !.failed = k]
    ELSE IF rejected THEN [st EXCEPT !.ret = "BackendError", !.failed = k]
    ELSE [st EXCEPT !.rows = @ \cup {Row(st.next, a, c, Marshal(object))},
                    !.next = @ + 1,
                    !.out = Append(@, GoMap(MapSet(object.v, "$id", Int64(st.next))))]
\* One call of the closure add on the state st of the running transaction:
\* st = [rows, next, out, ret, failed], out the documents with "$id" attached.
Add(st, a, c, object, k, rejected) ==
    IF object.t # "map" THEN [st EXCEPT !.ret = "panic"]
    ELSE LET stripped == GoMap(MapDelete(object.v, "$id")) IN
         IF ~Marshalable(stripped) THEN [st EXCEPT !.ret = "MarshalError", !.failed = k]
         ELSE IF rejected THEN [st EXCEPT !.ret = "BackendError", !.failed = k]
         ELSE [st EXCEPT !.rows = @ \cup {Row(st.next, a, c, Marshal(stripped))},
                         !.next = @ + 1,
                         !.out = Append(@, GoMap(MapSet(stripped.v, "$id", Int64(st.next))))]

RECURSIVE AddAll(_, _, _, _, _, _)
AddAll(st, a, c, objects, k, failAt) ==
    IF k > Len(objects) \/ st.ret # "ok" THEN st
    ELSE AddAll(Add(st, a, c, objects[k], k, failAt = k), a, c, objects, k + 1, failAt)

\* fault: [at, k]: the backend call that fails ("none", "begin", "prepare",
\* "stmt" number k, "commit").
\* Insert once the loop over the documents is left with st, in a transaction
\* begun on the rows rs: what it returns and what the deferred function does
InsertDone(rs, st, fault) ==
    IF fault.at = "begin"
    THEN [ret |-> "BackendError", results |-> <<>>, rows |-> rs, next |-> st.next,
          failed |-> 0, tx |-> FALSE, sql |-> FALSE, ended |-> "none"]
    ELSE IF fault.at = "prepare"
    THEN [ret |-> "BackendError", results |-> <<>>, rows |-> rs, next |-> st.next,
          failed |-> 0, tx |-> TRUE, sql |-> FALSE, ended |-> Deferred(TRUE)]
    ELSE [ret |-> IF st.ret = "ok" /\ fault.at = "commit" THEN "BackendError" ELSE st.ret,
          results |-> IF st.ret = "ok" THEN st.out ELSE <<>>,
          rows |-> TxEnd(st.ret \in ReturnedErrors, rs, st.rows, fault.at = "commit"),
          next |-> st.next, failed |-> st.failed, tx |-> TRUE, sql |-> TRUE,
          ended |-> Deferred(st.ret \in ReturnedErrors)]

InsertResult(rs, next, a, c, object, fault) ==
    LET st0 == [rows |-> rs, next |-> next, out |-> <<>>, ret |-> "ok", failed |-> 0]
        objects == IF object.t = "slice" THEN object.v ELSE <<object>>
        failAt == IF fault.at = "stmt" THEN fault.k ELSE 0
    IN
    IF fault.at \in {"begin", "prepare"} THEN InsertDone(rs, st0, fault)
    ELSE InsertDone(rs, AddAll(st0, a, c, objects, 1, failAt), fault)

InsertFaults == {[at |-> x, k |-> 0] : x \in {"none", "begin", "prepare", "commit"}}
                \cup {[at |-> "stmt", k |-> k] : k \in 1..BatchLen}

Insert(a, c, object, fault) ==
    LET res == InsertResult(rows, nextId, a, c, object, fault) IN
    /\ res.next <= MaxId + 1
    /\ rows' = res.rows
    /\ nextId' = res.next
    /\ op' = [NoOp EXCEPT !.name = "Insert", !.account = a, !.collection = c,
                          !.arg = object, !.ret = res.ret, !.results = res.results,
                          !.tx = res.tx, !.sql = res.sql, !.failed = res.failed,
                          !.ended = res.ended]
    /\ UNCHANGED <<mvars, xvars>>

\* ------------------------------------------------- query language: the AST
\* A node of the parse tree: its rule, its children (up is the first child,
\* next the following sibling) and the text buffer[begin:end] it spans.
Node(rule, up, text) == [rule |-> rule, up |-> up, text |-> text]
Leaf(rule, text) == Node(rule, <<>>, text)

Word(w) == Leaf("word", <<w>>)
PathNode(ws) == Node("path", [i \in 1..Len(ws) |-> Word(ws[i])], ws)
OpNode(o) == Leaf("op", <<o>>)
\* operands: "$N", a double-quoted string, a number, a boolean, null
PlaceholderNode(n) == Leaf("placeholder", <<"$", ToString(n)>>)
StringNode(s) == Leaf("string", <<"\"">> \o s \o <<"\"">>)
NumberNode(n) == Leaf("number", <<n>>)
BooleanNode(b) == Leaf("boolean", <<b>>)
NullNode == Leaf("null", <<"null">>)
ValueNode(operand) == Node("value", <<operand>>, operand.text)
\* predicate := path operator operand
Predicate(ws, o, operand) ==
    Node("expression", <<PathNode(ws), OpNode(o), ValueNode(operand)>>, <<>>)
BooleanExpression(b) == Node("expression", <<BooleanNode(b)>>, <<b>>)
\* term := predicate | "(" disjunction ")"
Term(expression) == Node("e3", <<expression>>, <<>>)
\* (the group holds its disjunction in a node of its own, the grouped
\* sub-expression: pgProcessRulee3 reads the disjunction as node.next.up)
Group(disjunction) ==
    Node("e3", <<Leaf("open", <<"(">>), Node("sub", <<disjunction>>, <<>>),
                 Leaf("close", <<")">>)>>, <<>>)
Conjunction(terms) == Node("e2", terms, <<>>)
Disjunction(conjunctions) == Node("e1", conjunctions, <<>>)
\* query := disjunction [order] [limit] [offset]
QueryNode(disjunction, clauses) == Node("e", <<disjunction>> \o clauses, <<>>)
OrderNode(ws, cast, dir) ==
    Node("order",
         <<IF cast THEN Node("cast", <<PathNode(ws)>>, <<>>) ELSE PathNode(ws)>>
         \o (IF dir = "" THEN <<>> ELSE <<Leaf(dir, <<>>)>>), <<>>)
LimitNode(n) == Node("limit", <<Leaf("value1", <<n>>)>>, <<>>)
OffsetNode(n) == Node("offset", <<Leaf("value1", <<n>>)>>, <<>>)

\* ---------------------------------------------------- the Postgres compiler
\* Query{s, errors}; panic records a run-time panic raised while compiling.
EmptyQuery == [s |-> <<>>, errors |-> <<>>, panic |-> FALSE]

\* the segments of a path: its word nodes' texts
RECURSIVE Segments(_)
Segments(nodes) ==
    IF nodes = <<>> THEN <<>>
    ELSE (IF Head(nodes).rule = "word" THEN Head(nodes).text ELSE <<>>)
         \o Segments(Tail(nodes))

\* object->'s1'->...->>'sn'
RECURSIVE Descend(_, _)
Descend(segments, k) ==
    IF k > Len(segments) THEN <<>>
    ELSE <<(IF k = Len(segments) THEN "->>" ELSE "->"), "'", segments[k], "'">>
         \o Descend(segments, k + 1)

pgProcessPath(nodes, param) ==
    LET segments == Segments(nodes) IN
    IF segments = <<>> THEN [EmptyQuery EXCEPT !.panic = TRUE]
    ELSE [EmptyQuery EXCEPT !.s = <<"object">> \o Descend(segments, 1)]

RECURSIVE pgProcessCastLoop(_, _, _)
pgProcessCastLoop(nodes, param, q) ==
    IF nodes = <<>> \/ q.panic THEN q
    ELSE LET node == Head(nodes) IN
         pgProcessCastLoop(Tail(nodes), param,
            IF node.rule = "path"
            THEN LET path == pgProcessPath(node.up, param) IN
                 [q EXCEPT !.s = <<"CAST", "(">> \o path.s \o <<"as", "numeric", ")">>,
                           !.panic = path.panic]
            ELSE q)

\* a cast clause compiled as the bare path
pgProcessCastAsText(nodes, param) == pgProcessPath(nodes[1].up, param)
pgProcessCast(nodes, param) == pgProcessCastLoop(nodes, param, EmptyQuery)

RECURSIVE pgProcessOrderLoop(_, _, _)
pgProcessOrderLoop(nodes, param, q) ==
    IF nodes = <<>> \/ q.panic THEN q
    ELSE LET node == Head(nodes) IN
         pgProcessOrderLoop(Tail(nodes), param,
            CASE node.rule = "path" ->
                   LET path == pgProcessPath(node.up, param) IN
                   [q EXCEPT !.s = <<"ORDER", "BY">> \o path.s, !.panic = path.panic]
              [] node.rule = "cast" ->
                   LET cast == pgProcessCast(node.up, param) IN
                   [q EXCEPT !.s = <<"ORDER", "BY">> \o cast.s, !.panic = cast.panic]
              [] node.rule = "asc" -> [q EXCEPT !.s = @ \o <<"ASC">>]
              [] node.rule = "desc" -> [q EXCEPT !.s = @ \o <<"DESC">>]
              [] OTHER -> q)

pgProcessOrder(nodes, param) == pgProcessOrderLoop(nodes, param, EmptyQuery)

RECURSIVE pgProcessLimitLoop(_, _, _, _)
pgProcessLimitLoop(nodes, param, q, word) ==
    IF nodes = <<>> THEN q
    ELSE LET node == Head(nodes) IN
         pgProcessLimitLoop(Tail(nodes), param,
            IF node.rule = "value1" THEN [q EXCEPT !.s = @ \o <<word>> \o node.text] ELSE q,
            word)

pgProcessLimit(nodes, param) == pgProcessLimitLoop(nodes, param, EmptyQuery, "LIMIT")

pgProcessOffset(nodes, param) == pgProcessLimitLoop(nodes, param, EmptyQuery, "OFFSET")

\* "%v IS NULL" for "=", "%v IS NOT NULL" for "!=", q.s as it is for the others
NullTest(s, o) ==
    CASE o = "=" -> s \o <<"IS", "NULL">>
      [] o = "!=" -> s \o <<"IS", "NOT", "NULL">>
      [] OTHER -> s

\* the type switch on context.param[placeholder-1]
PlaceholderOperand(s, o, p) ==
    CASE p.t = "string" -> s \o <<o, "'">> \o p.v \o <<"'">>
      [] p.t = "float64" -> <<"CAST", "(">> \o s \o <<"as", "FLOAT", ")", o>> \o p.v
      [] p.t = "int" -> <<"CAST", "(">> \o s \o <<"as", "INTEGER", ")", o>> \o p.v
      [] p.t = "bool" -> <<"CAST", "(">> \o s \o <<"as", "BOOLEAN", ")", o>> \o p.v
      [] OTHER -> NullTest(s, o)

\* The number literals of the model, each with the characters it is written in.
Chars ==
    ("3" :> <<"3">>) @@ ("21" :> <<"2", "1">>) @@ ("3.0" :> <<"3", ".", "0">>)
    @@ ("2.5" :> <<"2", ".", "5">>)
ContainsNothing(param, sub) == FALSE
\* strings.Contains(param, sub) for a substring of one character
Contains(param, sub) == \E i \in DOMAIN Chars[param] : Chars[param][i] = sub
\* a number literal with a "." is a float
FloatLiterals == {tok \in DOMAIN Chars : Contains(tok, ".")}

pgProcessExpression(nodes, param) ==
    LET first == nodes[1] IN
    IF first.rule = "boolean" THEN [EmptyQuery EXCEPT !.s = first.text]
    ELSE
    LET segments == Segments(first.up) IN
    IF segments = <<>> THEN [EmptyQuery EXCEPT !.panic = TRUE]
    ELSE
    LET s == <<"object">> \o Descend(segments, 1)
        o == nodes[2].text[1]
        node == nodes[3].up[1]
    IN
    CASE node.rule = "placeholder" ->
           LET digits == node.text[2] IN
           IF ~IsDigits(digits)
           THEN [s |-> s, errors |-> <<"Atoi">>, panic |-> FALSE]
           ELSE LET placeholder == Atoi(digits) IN
                IF placeholder > Len(param)
                THEN [s |-> s, errors |-> <<"placholder to large">>, panic |-> FALSE]
                ELSE IF placeholder - 1 < 0
                THEN [s |-> s, errors |-> <<>>, panic |-> TRUE]
                ELSE [EmptyQuery EXCEPT !.s = PlaceholderOperand(s, o, param[placeholder])]
      [] node.rule = "string" ->
           LET str == SubSeq(node.text, 2, Len(node.text) - 1) IN
           [EmptyQuery EXCEPT !.s = s \o <<o, "'">> \o str \o <<"'">>]
      [] node.rule = "number" ->
           IF Contains(node.text[1], ".")
           THEN [EmptyQuery EXCEPT
                   !.s = <<"CAST", "(">> \o s \o <<"as", "FLOAT", ")", o>> \o node.text]
           ELSE [EmptyQuery EXCEPT
                   !.s = <<"CAST", "(">> \o s \o <<"as", "INTEGER", ")", o>> \o node.text]
      [] node.rule = "boolean" ->
           [EmptyQuery EXCEPT
              !.s = <<"CAST", "(">> \o s \o <<"as", "BOOLEAN", ")", o>> \o node.text]
      [] node.rule = "null" -> [EmptyQuery EXCEPT !.s = NullTest(s, o)]
      [] OTHER -> [EmptyQuery EXCEPT !.s = s]

RECURSIVE pgProcessLoop(_, _, _)
RECURSIVE pgProcessRulee1Loop(_, _, _, _)
RECURSIVE pgProcessRulee2Loop(_, _, _, _)
RECURSIVE pgProcessRulee3(_, _)

pgProcess(nodes, param) == pgProcessLoop(nodes, param, EmptyQuery)

pgProcessRulee1(nodes, param) == pgProcessRulee1Loop(nodes, param, EmptyQuery, <<>>)

pgProcessRulee2(nodes, param) == pgProcessRulee2Loop(nodes, param, EmptyQuery, <<>>)

pgProcessLoop(nodes, param, q) ==
    IF nodes = <<>> \/ q.panic THEN q
    ELSE LET node == Head(nodes) IN
         CASE node.rule = "e" -> pgProcess(node.up, param)
           [] node.rule = "e1" ->
                LET x == pgProcessRulee1(node.up, param) IN
                pgProcessLoop(Tail(nodes), param,
                    [s |-> q.s \o <<"(">> \o x.s \o <<")">>,
                     errors |-> q.errors \o x.errors, panic |-> x.panic])
           [] node.rule = "order" ->
                LET x == pgProcessOrder(node.up, param) IN
                pgProcessLoop(Tail(nodes), param,
                    [q EXCEPT !.s = @ \o x.s, !.panic = x.panic])
           [] node.rule = "limit" ->
                LET x == pgProcessLimit(node.up, param) IN
                pgProcessLoop(Tail(nodes), param, [q EXCEPT !.s = @ \o x.s])
           [] node.rule = "offset" ->
                LET x == pgProcessOffset(node.up, param) IN
                pgProcessLoop(Tail(nodes), param, [q EXCEPT !.s = @ \o x.s])
           [] OTHER -> pgProcessLoop(Tail(nodes), param, q)

pgProcessRulee1Loop(nodes, param, q, or) ==
    IF nodes = <<>> \/ q.panic THEN q
    ELSE LET node == Head(nodes) IN
         IF node.rule = "e2"
         THEN LET x == pgProcessRulee2(node.up, param) IN
              pgProcessRulee1Loop(Tail(nodes), param,
                  [s |-> q.s \o or \o x.s, errors |-> q.errors \o x.errors,
                   panic |-> x.panic], <<"OR">>)
         ELSE pgProcessRulee1Loop(Tail(nodes), param, q, or)

pgProcessRulee2Loop(nodes, param, q, and) ==
    IF nodes = <<>> \/ q.panic THEN q
    ELSE LET node == Head(nodes) IN
         IF node.rule = "e3"
         THEN LET x == pgProcessRulee3(node.up, param) IN
              pgProcessRulee2Loop(Tail(nodes), param,
                  [s |-> q.s \o and \o x.s, errors |-> q.errors \o x.errors,
                   panic |-> x.panic], <<"AND">>)
         ELSE pgProcessRulee2Loop(Tail(nodes), param, q, and)

\* a group compiled from the node under its disjunction: nothing between
\* the parentheses
pgProcessRulee3EmptyGroup(nodes, param) ==
    IF nodes[1].rule = "expression" THEN pgProcessExpression(nodes[1].up, param)
    ELSE [EmptyQuery EXCEPT !.s = <<"(", ")">>]
pgProcessRulee3(nodes, param) ==
    IF nodes[1].rule = "expression" THEN pgProcessExpression(nodes[1].up, param)
    ELSE IF Len(nodes) < 2 THEN [EmptyQuery EXCEPT !.panic = TRUE]
    ELSE LET x == pgProcess(nodes[2].up, param) IN
         [s |-> <<"(">> \o x.s \o <<")">>, errors |-> x.errors, panic |-> x.panic]

\* ------------------------------------------------------ the SQL backend
\* The lexical scan of a statement: a quote opens an operand that runs to the
\* next quote that is not doubled; everything else is a symbol.
RECURSIVE LexString(_, _, _)
LexString(s, i, acc) ==
    IF i > Len(s) THEN [ok |-> FALSE, v |-> acc, i |-> i]
    ELSE IF s[i] = "'"
    THEN IF i + 1 <= Len(s) /\ s[i + 1] = "'"
         THEN LexString(s, i + 2, Append(acc, "'"))
         ELSE [ok |-> TRUE, v |-> acc, i |-> i + 1]
    ELSE LexString(s, i + 1, Append(acc, s[i]))

RECURSIVE Lex(_, _)
Lex(s, i) ==
    IF i > Len(s) THEN <<>>
    ELSE IF s[i] = "'"
    THEN LET r == LexString(s, i + 1, <<>>) IN
         IF r.ok THEN <<[k |-> "str", v |-> r.v]>> \o Lex(s, r.i)
         ELSE <<[k |-> "bad", v |-> <<>>]>>
    ELSE <<[k |-> "sym", v |-> <<s[i]>>]>> \o Lex(s, i + 1)

Sym(lx, i, w) == i <= Len(lx) /\ lx[i].k = "sym" /\ lx[i].v = <<w>>

\* SQL values: a type, the text of the value, NULL or not, and whether
\* evaluating it raised a run-time error (a cast of text that is no number).
JNull == [j |-> "null", v |-> <<>>]
V(t, v, null) == [t |-> t, v |-> v, null |-> null, rerr |-> FALSE, js |-> JNull]
VBool(b) == V("bool", IF b THEN <<"true">> ELSE <<"false">>, FALSE)
VJson(js) == [t |-> "json", v |-> <<>>, null |-> js.j = "null", rerr |-> FALSE, js |-> js]
Fail == [ok |-> FALSE, val |-> V("bool", <<>>, TRUE), i |-> 0]
Got(val, i) == [ok |-> TRUE, val |-> val, i |-> i]
IsTrue(val) == ~val.null /\ val.v = <<"true">>
IsFalse(val) == ~val.null /\ val.v = <<"false">>

\* the bound argument $n as an SQL value
ArgValue(g) ==
    CASE g.t = "string" -> V("text", g.v, FALSE)
      [] g.t \in {"int", "int64"} -> V("int", g.v, FALSE)
      [] g.t = "float64" -> V("float", g.v, FALSE)
      [] g.t = "bool" -> V("bool", g.v, FALSE)
      [] OTHER -> V("unknown", <<>>, TRUE)

ArgIndex(tok, n) == CHOOSE k \in 0..n : (k = 0 /\ \A m \in 1..n : tok # "$" \o ToString(m))
                                        \/ (k > 0 /\ tok = "$" \o ToString(k))

\* ten times the number a numeric text denotes
NumVal(tok) ==
    CASE tok = "3.0" -> 30
      [] tok = "2.5" -> 25
      [] OTHER -> 10 * Atoi(tok)
IsNumber(v) == Len(v) = 1 /\ (IsDigits(v[1]) \/ v[1] \in FloatLiterals)
IsInteger(v) == Len(v) = 1 /\ IsDigits(v[1])
IsBoolean(v) == v \in {<<"true">>, <<"false">>}

\* the text order of two values, by the place of their units in Alphabet
Alphabet == <<"'", "(", ")", "=", "OR", "a", "b">>
Rank(tok) == IF \E k \in 1..Len(Alphabet) : Alphabet[k] = tok
             THEN CHOOSE k \in 1..Len(Alphabet) : Alphabet[k] = tok ELSE 0
RECURSIVE TextLess(_, _)
TextLess(a, b) ==
    IF b = <<>> THEN FALSE
    ELSE IF a = <<>> THEN TRUE
    ELSE IF Rank(Head(a)) # Rank(Head(b)) THEN Rank(Head(a)) < Rank(Head(b))
    ELSE TextLess(Tail(a), Tail(b))

CompareOps == {"=", "!=", "<", "<=", ">", ">="}
Holds(o, eq, lt) ==
    CASE o = "=" -> eq
      [] o = "!=" -> ~eq
      [] o = "<" -> lt
      [] o = "<=" -> lt \/ eq
      [] o = ">" -> ~lt /\ ~eq
      [] OTHER -> ~lt

\* an untyped literal takes the type of the other operand
Coerce(val, t) ==
    IF val.t # "unknown" THEN [ok |-> TRUE, val |-> val]
    ELSE IF val.null THEN [ok |-> TRUE, val |-> [val EXCEPT !.t = t]]
    ELSE CASE t \in {"text", "unknown"} -> [ok |-> TRUE, val |-> [val EXCEPT !.t = "text"]]
           [] t = "int" -> [ok |-> IsInteger(val.v), val |-> [val EXCEPT !.t = "int"]]
           [] t = "float" -> [ok |-> IsNumber(val.v), val |-> [val EXCEPT !.t = "float"]]
           [] t = "bool" -> [ok |-> IsBoolean(val.v), val |-> [val EXCEPT !.t = "bool"]]
           [] OTHER -> [ok |-> FALSE, val |-> val]

Compare(l0, o, r0, i) ==
    LET cl == Coerce(l0, r0.t)
        cr == Coerce(r0, l0.t)
        l == cl.val
        r == cr.val
        numeric == {"int", "float"}
    IN
    IF ~cl.ok \/ ~cr.ok THEN Fail
    ELSE IF ~((l.t = r.t /\ l.t \in {"text", "int", "float", "bool"})
              \/ (l.t \in numeric /\ r.t \in numeric)) THEN Fail
    ELSE IF l.rerr \/ r.rerr THEN Got([VBool(FALSE) EXCEPT !.rerr = TRUE], i)
    ELSE IF l.null \/ r.null THEN Got(V("bool", <<>>, TRUE), i)
    ELSE IF l.t \in numeric
    THEN Got(VBool(Holds(o, NumVal(l.v[1]) = NumVal(r.v[1]),
                            NumVal(l.v[1]) < NumVal(r.v[1]))), i)
    ELSE Got(VBool(Holds(o, l.v = r.v, TextLess(l.v, r.v))), i)

\* CAST(val AS type)
Cast(val, type) ==
    LET t == CASE type = "INTEGER" -> "int"
               [] type \in {"FLOAT", "numeric"} -> "float"
               [] type = "BOOLEAN" -> "bool"
               [] OTHER -> "none"
        fits == CASE t = "int" -> IsInteger(val.v)
                  [] t = "float" -> IsNumber(val.v)
                  [] t = "bool" -> IsBoolean(val.v)
                  [] OTHER -> FALSE
    IN
    IF t = "none" \/ val.t = "json" THEN [ok |-> FALSE, val |-> val]
    ELSE IF val.null \/ val.rerr THEN [ok |-> TRUE, val |-> [val EXCEPT !.t = t]]
    ELSE [ok |-> TRUE, val |-> [val EXCEPT !.t = t, !.rerr = ~fits]]

\* a value where a truth value is needed: an operand of AND / OR, the WHERE
AsBool(val) ==
    LET c == Coerce(val, "bool") IN [ok |-> c.ok /\ c.val.t = "bool", val |-> c.val]

And3(a, b) ==
    IF a.rerr THEN a
    ELSE IF IsFalse(a) THEN a
    ELSE IF b.rerr THEN b
    ELSE IF IsFalse(b) THEN b
    ELSE IF a.null THEN a
    ELSE b

Or3(a, b) ==
    IF a.rerr THEN a
    ELSE IF IsTrue(a) THEN a
    ELSE IF b.rerr THEN b
    ELSE IF IsTrue(b) THEN b
    ELSE IF a.null THEN a
    ELSE b

\* object -> 'k' and object ->> 'k'
Child(val, key) ==
    IF ~val.null /\ val.js.j = "object" /\ key \in DOMAIN val.js.v
    THEN val.js.v[key] ELSE JNull
ChildText(val, key) ==
    LET js == Child(val, key) IN
    CASE js.j = "null" -> V("text", <<>>, TRUE)
      [] js.j = "object" -> V("text", <<"{}">>, FALSE)
      [] OTHER -> V("text", js.v, FALSE)

\* The condition's grammar, one rule per name; Eval holds the rules' bodies.
\*   or := and (OR and)*     and := cmp (AND cmp)*
\*   cmp := operand [op operand | IS [NOT] NULL]
\*   operand := ( or ) | CAST ( operand as type ) | object (-> 'k')* [->> 'k']
\*              | column | literal | $n
RECURSIVE Eval(_, _, _, _, _, _)
PDescend(lx, i, val) == Eval("descend", lx, i, val, <<>>, <<>>)
POperand(lx, i, r, args) == Eval("operand", lx, i, Fail, r, args)
PCmp(lx, i, r, args) == Eval("cmp", lx, i, Fail, r, args)
PAndRest(lx, acc, r, args) == Eval("andRest", lx, 0, acc, r, args)
PAnd(lx, i, r, args) == Eval("and", lx, i, Fail, r, args)
POrRest(lx, acc, r, args) == Eval("orRest", lx, 0, acc, r, args)
POr(lx, i, r, args) == Eval("or", lx, i, Fail, r, args)

Eval(rule, lx, i, acc, r, args) ==
    CASE rule = "descend" ->
           IF (Sym(lx, i, "->") \/ Sym(lx, i, "->>")) /\ acc.t # "json" THEN Fail
           ELSE IF Sym(lx, i, "->")
           THEN IF i + 1 <= Len(lx) /\ lx[i + 1].k = "str" /\ Len(lx[i + 1].v) = 1
                THEN PDescend(lx, i + 2, VJson(Child(acc, lx[i + 1].v[1])))
                ELSE Fail
           ELSE IF Sym(lx, i, "->>")
           THEN IF i + 1 <= Len(lx) /\ lx[i + 1].k = "str" /\ Len(lx[i + 1].v) = 1
                THEN PDescend(lx, i + 2, ChildText(acc, lx[i + 1].v[1]))
                ELSE Fail
           ELSE Got(acc, i)
      [] rule = "operand" ->
           IF i > Len(lx) \/ lx[i].k = "bad" THEN Fail
           ELSE IF lx[i].k = "str" THEN Got(V("unknown", lx[i].v, FALSE), i + 1)
           ELSE LET w == lx[i].v[1] IN
           CASE w = "(" ->
                  LET e == POr(lx, i + 1, r, args) IN
                  IF e.ok /\ Sym(lx, e.i, ")") THEN [e EXCEPT !.i = @ + 1] ELSE Fail
             [] w = "CAST" ->
                  IF ~Sym(lx, i + 1, "(") THEN Fail
                  ELSE LET e == POperand(lx, i + 2, r, args) IN
                       IF e.ok /\ Sym(lx, e.i, "as") /\ e.i + 2 <= Len(lx)
                          /\ lx[e.i + 1].k = "sym" /\ Sym(lx, e.i + 2, ")")
                       THEN LET c == Cast(e.val, lx[e.i + 1].v[1]) IN
                            IF c.ok THEN Got(c.val, e.i + 3) ELSE Fail
                       ELSE Fail
             [] w = "object" -> PDescend(lx, i + 1, VJson(r.object))
             [] w = "id" -> Got(V("int", <<ToString(r.id)>>, FALSE), i + 1)
             [] w = "account_id" -> Got(V("int", <<ToString(r.account_id)>>, FALSE), i + 1)
             [] w = "collection" -> Got(V("text", <<r.collection>>, FALSE), i + 1)
             [] w \in {"true", "false"} -> Got(V("bool", <<w>>, FALSE), i + 1)
             [] w = "NULL" -> Got(V("unknown", <<>>, TRUE), i + 1)
             [] ArgIndex(w, Len(args)) > 0 ->
                  Got(ArgValue(args[ArgIndex(w, Len(args))]), i + 1)
             [] IsDigits(w) -> Got(V("int", <<w>>, FALSE), i + 1)
             [] w \in FloatLiterals -> Got(V("float", <<w>>, FALSE), i + 1)
             [] OTHER -> Fail
      [] rule = "cmp" ->
           LET l == POperand(lx, i, r, args) IN
           IF ~l.ok THEN Fail
           ELSE IF l.i <= Len(lx) /\ lx[l.i].k = "sym" /\ lx[l.i].v[1] \in CompareOps
           THEN LET rhs == POperand(lx, l.i + 1, r, args) IN
                IF rhs.ok THEN Compare(l.val, lx[l.i].v[1], rhs.val, rhs.i) ELSE Fail
           ELSE IF Sym(lx, l.i, "IS") /\ Sym(lx, l.i + 1, "NULL")
           THEN Got([VBool(l.val.null) EXCEPT !.rerr = l.val.rerr], l.i + 2)
           ELSE IF Sym(lx, l.i, "IS") /\ Sym(lx, l.i + 1, "NOT") /\ Sym(lx, l.i + 2, "NULL")
           THEN Got([VBool(~l.val.null) EXCEPT !.rerr = l.val.rerr], l.i + 3)
           ELSE l
      [] rule = "andRest" ->
           IF ~acc.ok \/ ~Sym(lx, acc.i, "AND") THEN acc
           ELSE LET a == AsBool(acc.val)
                    rhs == PCmp(lx, acc.i + 1, r, args)
                    b == AsBool(rhs.val)
                IN IF ~a.ok \/ ~rhs.ok \/ ~b.ok THEN Fail
                   ELSE PAndRest(lx, Got(And3(a.val, b.val), rhs.i), r, args)
      [] rule = "and" -> PAndRest(lx, PCmp(lx, i, r, args), r, args)
      [] rule = "orRest" ->
           IF ~acc.ok \/ ~Sym(lx, acc.i, "OR") THEN acc
           ELSE LET a == AsBool(acc.val)
                    rhs == PAnd(lx, acc.i + 1, r, args)
                    b == AsBool(rhs.val)
                IN IF ~a.ok \/ ~rhs.ok \/ ~b.ok THEN Fail
                   ELSE POrRest(lx, Got(Or3(a.val, b.val), rhs.i), r, args)
      [] OTHER -> POrRest(lx, PAnd(lx, i, r, args), r, args)

\* SELECT id, account_id, collection, object FROM objects WHERE <condition> ;
SelectPrefix == <<"SELECT", "id", ",", "account_id", ",", "collection", ",", "object",
                  "FROM", "objects", "WHERE">>

\* the condition of a statement on row r: [ok, val, i]; ok is FALSE when the
\* statement is rejected as a whole (syntax, types)
Where(lx, r, args) ==
    IF Len(lx) < Len(SelectPrefix)
       \/ \E k \in 1..Len(SelectPrefix) : ~Sym(lx, k, SelectPrefix[k])
    THEN Fail
    ELSE LET e == POr(lx, Len(SelectPrefix) + 1, r, args)
             b == AsBool(e.val)
         IN IF e.ok /\ b.ok /\ e.i = Len(lx) /\ Sym(lx, e.i, ";")
            THEN Got(b.val, e.i) ELSE Fail

\* a row of no tenant, to type-check a statement when the table is empty
ProbeRow == [id |-> 0, account_id |-> 0, collection |-> "", object |-> JNull]

\* ------------------------------------------------------- Select and Delete
\* The query texts the callers pass, as the parser sees them: a text the
\* parser rejects, or the tree it builds.
Inj == <<"a", "'", ")", "OR", "(", "'", "a", "'", "=", "'", "a">>
OnePredicate(e) == QueryNode(Disjunction(<<Conjunction(<<Term(e)>>)>>), <<>>)
Rejected == [parse |-> "error", ast |-> Leaf("e", <<>>)]
Parsed(ast) == [parse |-> "ok", ast |-> ast]
Queries == <<
    Rejected,                                                       \* x = = "a"
    Parsed(OnePredicate(Predicate(<<"x">>, "=", StringNode(A)))),   \* x = "a"
    Parsed(OnePredicate(Predicate(<<"x">>, "=", PlaceholderNode(1)))),  \* x = $1
    Parsed(OnePredicate(Predicate(<<"x">>, "=", PlaceholderNode(2)))),  \* x = $2
    Parsed(OnePredicate(Predicate(<<"x">>, "=", PlaceholderNode(0)))),  \* x = $0
    Parsed(OnePredicate(Predicate(<<"x">>, "=", StringNode(Inj)))),     \* x = "a') OR ('a'='a"
    Parsed(OnePredicate(Predicate(<<"x">>, "!=", PlaceholderNode(1)))) >>  \* x != $1
ParamLists == << <<>>, <<Str(A)>>, <<Str(Inj)>>, <<Nil>> >>

\* The calls the callers make: a query text with the parameters bound to it.
Calls == {<<1, 1>>, <<2, 1>>, <<3, 2>>, <<3, 3>>, <<4, 2>>, <<5, 2>>, <<6, 1>>}
\* The calls that compare a path with a placeholder, bound to null or to a string.
NullCalls == {<<3, 4>>, <<7, 4>>, <<3, 2>>, <<7, 2>>}

\* the statement _Select sends: the tenant and collection predicates, then the
\* compiled query
SelectStatement(length, query) ==
    SelectPrefix
    \o <<"account_id", "=", "$" \o ToString(length + 1), "AND",
         "collection", "=", "$" \o ToString(length + 2), "AND">>
    \o query \o <<";">>

\* Every query compiled with every parameter list, the statement it is sent
\* in, and the backend's verdict on every row the table can hold: computed once.
Compiled ==
    [qi \in 1..Len(Queries) |-> [pi \in 1..Len(ParamLists) |->
        IF Queries[qi].parse = "ok" THEN pgProcess(<<Queries[qi].ast>>, ParamLists[pi])
        ELSE EmptyQuery]]
Statement ==
    [qi \in 1..Len(Queries) |-> [pi \in 1..Len(ParamLists) |->
        SelectStatement(Len(ParamLists[pi]), Compiled[qi][pi].s)]]
Lexed ==
    [qi \in 1..Len(Queries) |-> [pi \in 1..Len(ParamLists) |-> Lex(Statement[qi][pi], 1)]]
StoredBodies == {Marshal(GoMap(MapDelete(d.v, "$id"))) : d \in Docs}
RowShapes ==
    {Row(id, sc[1], sc[2], js) : id \in 1..MaxId, sc \in Scopes, js \in StoredBodies}
    \cup {ProbeRow}
\* params = append(params, accountID, collection)
\* (the backend is taken to ignore an argument no $n of the statement refers to)
Args(pi, a, c) == ParamLists[pi] \o <<Int64(a), Str(<<c>>)>>
Verdicts ==
    [qi \in 1..Len(Queries) |-> [pi \in 1..Len(ParamLists) |-> [sc \in Scopes |->
        [r \in RowShapes |-> Where(Lexed[qi][pi], r, Args(pi, sc[1], sc[2]))]]]]

\* tx.Queryx(query, params...) on the rows rs, given the backend's verdict on
\* every row: [err, rows]
Queryx(rs, verdict) ==
    IF ~verdict[ProbeRow].ok \/ \E r \in rs : verdict[r].val.rerr
    THEN [err |-> TRUE, rows |-> {}]
    ELSE [err |-> FALSE, rows |-> {r \in rs : IsTrue(verdict[r].val)}]

RECURSIVE DecodeAll(_, _)
DecodeAll(rs, ids) ==
    IF ids = <<>> THEN <<>>
    ELSE <<Decode(CHOOSE r \in rs : r.id = Head(ids))>> \o DecodeAll(rs, Tail(ids))

\* the rows.Next() loop of _Select over what the query found
Scan(found, queryFails) ==
    IF queryFails \/ found.err
    THEN [ret |-> "BackendError", results |-> <<>>, sql |-> TRUE]
    ELSE [ret |-> "ok",
          results |-> DecodeAll(found.rows, SortedIds({r.id : r \in found.rows})),
          sql |-> TRUE]

\* _Select inside a transaction that sees the rows rs
SelectResult(rs, a, c, qi, pi, queryFails) ==
    IF Queries[qi].parse = "error"
    THEN [ret |-> "SyntaxError", results |-> <<>>, sql |-> FALSE]
    ELSE IF Compiled[qi][pi].panic
    THEN [ret |-> "panic", results |-> <<>>, sql |-> FALSE]
    ELSE Scan(Queryx(rs, Verdicts[qi][pi][<<a, c>>]), queryFails)

SelectFaults == {"none", "begin", "query", "commit"}

\* what Select does with its transaction once _Select is back: Rollback on an
\* error, Commit otherwise; a panic in _Select passes both by
SelectEnd(ret) ==
    IF ret = "panic" THEN "open"
    ELSE IF ret \in ReturnedErrors THEN "rollback"
    ELSE "commit"

\* Select: Beginx, _Select, then Commit or Rollback
SelectReturn(call, res, fault) ==
    IF fault = "begin" THEN [call EXCEPT !.ret = "BackendError"]
    ELSE IF res.ret = "ok" /\ fault = "commit"
    THEN [call EXCEPT !.ret = "BackendError", !.tx = TRUE, !.sql = TRUE,
                      !.ended = "commit",
                      !.bound = Args(call.params, call.account, call.collection)]
    ELSE [call EXCEPT !.ret = res.ret, !.results = res.results, !.tx = TRUE,
                      !.sql = res.sql,
                      !.ended = SelectEnd(res.ret),
                      !.bound = IF res.sql
                                THEN Args(call.params, call.account, call.collection)
                                ELSE <<>>]

Select(a, c, qi, pi, fault) ==
    /\ op' = SelectReturn([NoOp EXCEPT !.name = "Select", !.account = a, !.collection = c,
                                       !.query = qi, !.params = pi],
                          SelectResult(rows, a, c, qi, pi, fault = "query"), fault)
    /\ UNCHANGED <<rows, nextId, mvars, xvars>>

\* the loop of Delete over the selected documents: DELETE ... WHERE id = $1 AND
\* account_id = $2 AND collection = $3, statement number failAt failing
RECURSIVE DeleteEach(_, _, _, _, _, _)
DeleteEach(rs, a, c, results, k, failAt) ==
    IF k > Len(results) THEN [rows |-> rs, failed |-> 0]
    ELSE IF k = failAt THEN [rows |-> rs, failed |-> k]
    ELSE LET id == Atoi(results[k].v["$id"].v[1]) IN
         DeleteEach(rs \ ByID(rs, a, c, id), a, c, results, k + 1, failAt)

DeleteFaults == {[at |-> x, k |-> 0] : x \in {"none", "begin", "query", "prepare", "commit"}}
                \cup {[at |-> "stmt", k |-> k] : k \in 1..MaxId}

\* Delete after _Select returned res: the statements, then the deferred
\* Commit or Rollback
DeleteSelected(rs, a, c, res, del, fault) ==
    IF fault.at = "begin"
    THEN [ret |-> "BackendError", results |-> <<>>, rows |-> rs, tx |-> FALSE,
          sql |-> FALSE, failed |-> 0, ended |-> "none"]
    ELSE IF res.ret # "ok"
    THEN [ret |-> res.ret, results |-> <<>>,
          rows |-> TxEnd(res.ret \in ReturnedErrors, rs, rs, FALSE), tx |-> TRUE,
          sql |-> res.sql, failed |-> 0,
          ended |-> Deferred(res.ret \in ReturnedErrors)]
    ELSE IF fault.at = "prepare" \/ del.failed # 0
    THEN [ret |-> "BackendError", results |-> <<>>,
          rows |-> TxEnd(TRUE, rs, del.rows, FALSE), tx |-> TRUE,
          sql |-> TRUE, failed |-> del.failed, ended |-> Deferred(TRUE)]
    ELSE [ret |-> IF fault.at = "commit" THEN "BackendError" ELSE "ok",
          results |-> res.results,
          rows |-> TxEnd(FALSE, rs, del.rows, fault.at = "commit"), tx |-> TRUE,
          sql |-> TRUE, failed |-> 0, ended |-> Deferred(FALSE)]

DeleteFound(rs, a, c, res, fault) ==
    DeleteSelected(rs, a, c, res,
                   DeleteEach(rs, a, c, res.results, 1,
                              IF fault.at = "stmt" THEN fault.k ELSE 0),
                   fault)

DeleteResult(rs, a, c, qi, pi, fault) ==
    DeleteFound(rs, a, c, SelectResult(rs, a, c, qi, pi, fault.at = "query"), fault)

DeleteReturn(call, res) ==
    [call EXCEPT !.ret = res.ret, !.results = res.results, !.tx = res.tx,
                 !.sql = res.sql, !.failed = res.failed, !.ended = res.ended,
                 !.bound = IF res.sql
                           THEN Args(call.params, call.account, call.collection)
                           ELSE <<>>]

Delete(a, c, qi, pi, fault) ==
    \E res \in {DeleteResult(rows, a, c, qi, pi, fault)} :
        /\ rows' = res.rows
        /\ op' = DeleteReturn([NoOp EXCEPT !.name = "Delete", !.account = a,
                                           !.collection = c, !.query = qi, !.params = pi],
                              res)
        /\ UNCHANGED <<nextId, mvars, xvars>>

\* ------------------------------------- Delete and Insert, statement by statement
\* The backend runs each transaction at READ COMMITTED: a statement sees the
\* rows committed when it starts; a row a transaction deleted stays locked, and
\* in the table, until the transaction ends.  tx.del and tx.ins hold one running
\* Delete and one running Insert; pc is the statement it is at.
NoDelete == [pc |-> "idle", account |-> 0, collection |-> "", query |-> 0, params |-> 0,
             fault |-> [at |-> "none", k |-> 0],
             res |-> [ret |-> "ok", results |-> <<>>, sql |-> FALSE],
             k |-> 0, failed |-> 0, removed |-> {}, ret |-> "none", results |-> <<>>]
NoInsert == [pc |-> "idle", account |-> 0, collection |-> "", arg |-> Nil,
             fault |-> [at |-> "none", k |-> 0],
             st |-> [rows |-> {}, next |-> 0, out |-> <<>>, ret |-> "ok", failed |-> 0],
             k |-> 0, ret |-> "none"]

\* a row the running Delete has deleted and not yet committed is locked: an
\* UPDATE or DELETE of another caller waits for the transaction to end
Unlocked(a, c, id) == ByID(tx.del.removed, a, c, id) = {}

\* tx, err := s.db.Beginx()
DeleteBeginx(a, c, qi, pi, fault) ==
    /\ tx.del.pc = "idle"
    /\ tx' = [tx EXCEPT !.del = [NoDelete EXCEPT
                  !.pc = IF fault.at = "begin" THEN "return" ELSE "select",
                  !.account = a, !.collection = c, !.query = qi, !.params = pi,
                  !.fault = fault]]
    /\ UNCHANGED <<svars, mvars, compile, mem, lru, yvars>>

\* results, err = s._Select(tx, ...), then tx.Preparex of the DELETE statement
DeleteSelect ==
    /\ tx.del.pc = "select"
    /\ \E res \in {SelectResult(rows, tx.del.account, tx.del.collection, tx.del.query,
                                 tx.del.params, tx.del.fault.at = "query")} :
          tx' = [tx EXCEPT !.del.res = res,
                           !.del.k = 1,
                           !.del.pc = IF res.ret # "ok" \/ tx.del.fault.at = "prepare"
                                         \/ res.results = <<>>
                                      THEN "return" ELSE "stmt"]
    /\ UNCHANGED <<svars, mvars, compile, mem, lru, yvars>>

\* one round of the loop: stmt.Queryx(id, accountID, collection) deletes the row
\* of that id if it is there now; its result is not looked at
DeleteStmt ==
    /\ tx.del.pc = "stmt"
    /\ tx' = IF tx.del.fault.at = "stmt" /\ tx.del.fault.k = tx.del.k
             THEN [tx EXCEPT !.del.failed = tx.del.k, !.del.pc = "return"]
             ELSE [tx EXCEPT
                     !.del.removed = @ \cup ByID(rows, tx.del.account, tx.del.collection,
                                                 Atoi(tx.del.res.results[tx.del.k].v["$id"].v[1])),
                     !.del.k = @ + 1,
                     !.del.pc = IF tx.del.k = Len(tx.del.res.results)
                                THEN "return" ELSE "stmt"]
    /\ UNCHANGED <<svars, mvars, compile, mem, lru, yvars>>

\* the deferred Commit or Rollback, and the return
DeleteDeferred ==
    /\ tx.del.pc = "return"
    /\ \E res \in {DeleteSelected(rows, tx.del.account, tx.del.collection, tx.del.res,
                                   [rows |-> rows \ tx.del.removed, failed |-> tx.del.failed],
                                   tx.del.fault)} :
          /\ rows' = res.rows
          /\ op' = DeleteReturn([NoOp EXCEPT !.name = "Delete", !.account = tx.del.account,
                                             !.collection = tx.del.collection,
                                             !.query = tx.del.query,
                                             !.params = tx.del.params],
                                res)
          /\ tx' = [tx EXCEPT !.del.pc = "idle", !.del.ret = res.ret,
                              !.del.results = res.results,
                              !.del.removed = rows \ res.rows]
    /\ UNCHANGED <<nextId, mvars, compile, mem, lru, yvars>>

\* tx, err := s.db.Beginx(), then tx.Preparex of the INSERT statement
InsertBeginx(a, c, object, fault) ==
    /\ tx.ins.pc = "idle"
    /\ tx' = [tx EXCEPT !.ins = [NoInsert EXCEPT
                  !.pc = IF fault.at \in {"begin", "prepare"} THEN "return" ELSE "add",
                  !.account = a, !.collection = c, !.arg = object, !.fault = fault,
                  !.k = 1]]
    /\ UNCHANGED <<svars, mvars, compile, mem, lru, yvars>>

\* one call of add: the row is written inside the transaction; the sequence
\* behind id moves on at once, whatever becomes of the transaction
InsertAdd ==
    /\ tx.ins.pc = "add"
    /\ \E st \in {Add([tx.ins.st EXCEPT !.next = nextId], tx.ins.account, tx.ins.collection,
                       IF tx.ins.arg.t = "slice" THEN tx.ins.arg.v[tx.ins.k] ELSE tx.ins.arg,
                       tx.ins.k,
                       tx.ins.fault.at = "stmt" /\ tx.ins.fault.k = tx.ins.k)} :
          /\ st.next <= MaxId + 1
          /\ nextId' = st.next
          /\ tx' = [tx EXCEPT !.ins.st = st,
                              !.ins.k = @ + 1,
                              !.ins.pc = IF st.ret # "ok"
                                            \/ tx.ins.arg.t # "slice"
                                            \/ tx.ins.k = Len(tx.ins.arg.v)
                                         THEN "return" ELSE "add"]
    /\ UNCHANGED <<rows, op, mvars, compile, mem, lru, yvars>>

\* the deferred Commit or Rollback, and the return
InsertDeferred ==
    /\ tx.ins.pc = "return"
    /\ \E res \in {InsertDone(rows, [tx.ins.st EXCEPT !.rows = rows \cup @], tx.ins.fault)} :
          /\ rows' = res.rows
          /\ op' = [NoOp EXCEPT !.name = "Insert", !.account = tx.ins.account,
                                !.collection = tx.ins.collection,
                                !.arg = tx.ins.arg, !.ret = res.ret,
                                !.results = res.results,
                                !.tx = res.tx, !.sql = res.sql, !.failed = res.failed,
                                !.ended = res.ended]
          /\ tx' = [tx EXCEPT !.ins.pc = "idle", !.ins.ret = res.ret]
    /\ UNCHANGED <<nextId, mvars, compile, mem, lru, yvars>>

\* ----------------------------------------------------------------- Migrate
postgresCurrentVersion == 1
\* The processes that run Migrate against the one database.
Procs == {1, 2}

\* A process outside Migrate, and one entering it with s.conf.Migrate = conf.
\* found: what the version read met ("ok", "absent", "error"); writes: the
\* transactions this call committed; open: the transactions it began and
\* ended neither by Commit nor by Rollback; ret: "ok" (nil), "refused",
\* "error", "panic".
Idle == [pc |-> "idle", conf |-> FALSE, found |-> "none", currentVersion |-> 0,
         migrate |-> FALSE, ret |-> "none", writes |-> 0, open |-> 0]
Entered(conf) == [Idle EXCEPT !.pc = "get", !.conf = conf, !.migrate = conf]

\* the failures of a transaction: MustBegin, a MustExec, Commit
TxFaults == {"none", "begin", "exec", "commit"}

AfterBootstrapKeepsConf(conf) == conf

\* A panic of MustBegin leaves no transaction behind; a panic of MustExec
\* leaves the one it ran in, which nothing ends.
LeftOpen(fault) == IF fault = "begin" THEN 0 ELSE 1

\* migrate = true after the schema table was created and seeded
AfterBootstrap(conf) == TRUE

DecideNoShortcut(currentVersion, migrate) ==
    IF ~migrate THEN "refuse"
    ELSE IF currentVersion < 1 THEN "step1"
    ELSE "return"

DecideIgnoresFlag(currentVersion, migrate) ==
    IF currentVersion = postgresCurrentVersion THEN "return"
    ELSE IF currentVersion < 1 THEN "step1"
    ELSE "return"

\* the tests after the version is known: return nil, refuse, or run step 1
Decide(currentVersion, migrate) ==
    IF currentVersion = postgresCurrentVersion THEN "return"
    ELSE IF ~migrate THEN "refuse"
    ELSE IF currentVersion < 1 THEN "step1"
    ELSE "return"

\* UPDATE schema SET version = 1; on every row of the table
SetVersion(versions, v) == [i \in DOMAIN versions |-> v]

MigrateStart(p, conf) ==
    /\ mig[p].pc \in {"idle", "done"}
    /\ mig' = [mig EXCEPT ![p] = Entered(conf)]
    /\ UNCHANGED <<svars, schemaTable, objectsTable, xvars>>

\* s.db.Get(&currentVersion, `SELECT version FROM schema LIMIT 1`): any row of
\* the table may be the one returned; fault is a failure of the read itself
MigrateGet(p, fault) ==
    /\ mig[p].pc = "get"
    /\ IF schemaTable.exists /\ schemaTable.versions # <<>> /\ ~fault
       THEN \E i \in DOMAIN schemaTable.versions :
               mig' = [mig EXCEPT ![p].pc = "compare", ![p].found = "ok",
                                  ![p].currentVersion = schemaTable.versions[i]]
       ELSE mig' = [mig EXCEPT ![p].pc = "bootstrap",
                               ![p].found = IF schemaTable.exists THEN "error"
                                            ELSE "absent"]
    /\ UNCHANGED <<svars, schemaTable, objectsTable, xvars>>

\* CREATE TABLE IF NOT EXISTS schema; INSERT INTO schema VALUES (0); Commit
MigrateBootstrap(p, fault) ==
    /\ mig[p].pc = "bootstrap"
    /\ CASE fault = "none" ->
              /\ Len(schemaTable.versions) < MaxRows
              /\ schemaTable' = [exists |-> TRUE,
                                 versions |-> Append(schemaTable.versions, 0)]
              /\ mig' = [mig EXCEPT ![p].pc = "compare",
                                    ![p].migrate = AfterBootstrap(mig[p].conf),
                                    ![p].writes = @ + 1]
         [] fault = "commit" ->
              /\ mig' = [mig EXCEPT ![p].pc = "done", ![p].ret = "error"]
              /\ UNCHANGED schemaTable
         [] OTHER ->
              /\ mig' = [mig EXCEPT ![p].pc = "done", ![p].ret = "panic",
                                    ![p].open = @ + LeftOpen(fault)]
              /\ UNCHANGED schemaTable
    /\ UNCHANGED <<svars, objectsTable, xvars>>

MigrateCompare(p) ==
    /\ mig[p].pc = "compare"
    /\ mig' = [mig EXCEPT
                 ![p].pc = IF Decide(mig[p].currentVersion, mig[p].migrate) = "step1"
                           THEN "step1" ELSE "done",
                 ![p].ret = CASE Decide(mig[p].currentVersion, mig[p].migrate) = "return"
                                   -> "ok"
                              [] Decide(mig[p].currentVersion, mig[p].migrate) = "refuse"
                                   -> "refused"
                              [] OTHER -> "none"]
    /\ UNCHANGED <<svars, schemaTable, objectsTable, xvars>>

\* CREATE TABLE IF NOT EXISTS objects; CREATE INDEX (twice); ANALYZE;
\* UPDATE schema SET version = 1; Commit.  CREATE INDEX fails when the index
\* exists.
MigrateStep1(p, fault) ==
    /\ mig[p].pc = "step1"
    /\ CASE fault = "none" /\ ~objectsTable ->
              /\ objectsTable' = TRUE
              /\ schemaTable' = [schemaTable EXCEPT !.versions = SetVersion(@, 1)]
              /\ mig' = [mig EXCEPT ![p].pc = "done", ![p].ret = "ok",
                                    ![p].writes = @ + 1]
         [] fault = "commit" /\ ~objectsTable ->
              /\ mig' = [mig EXCEPT ![p].pc = "done", ![p].ret = "error"]
              /\ UNCHANGED <<schemaTable, objectsTable>>
         [] OTHER ->
              /\ mig' = [mig EXCEPT ![p].pc = "done", ![p].ret = "panic",
                                    ![p].open = @ + LeftOpen(fault)]
              /\ UNCHANGED <<schemaTable, objectsTable>>
    /\ UNCHANGED <<svars, xvars>>

\* ------------------------------------------------ the compiler on its own
\* No run of the compiler yet.
NoCompile == [ast |-> Leaf("none", <<>>), param |-> <<>>, q |-> EmptyQuery]

\* pgProcess(ast, &Context{buffer, nil, params}) on one parsed query
Compile(ast, param) ==
    /\ compile' = [ast |-> ast, param |-> param, q |-> pgProcess(<<ast>>, param)]
    /\ UNCHANGED <<svars, mvars, mem, lru, tx, yvars>>

\* The paths the compiled predicates test: a key, and a key of a nested object.
Paths == {<<"x">>, <<"a", "b">>}
\* path operator number, for every operator and number literal
NumberPredicates ==
    {Predicate(ws, o, NumberNode(n)) : ws \in Paths, o \in CompareOps, n \in DOMAIN Chars}

\* path operator literal, for the null, a string and a boolean literal
LiteralPredicates ==
    {Predicate(ws, o, operand) :
        ws \in Paths, o \in CompareOps, operand \in {NullNode, StringNode(A), BooleanNode("true")}}

\* The values bound to a placeholder, one of every type: a string, a float, an
\* int, the 64-bit integers of identifiers, a boolean, nil.
ParamValues ==
    {Str(A), Float64(<<"2.5">>), GoInt(<<"3">>), Int64(3), Uint64(3), Bool(<<"true">>), Nil}
\* path operator $N, for every operator
PlaceholderPredicates ==
    {Predicate(ws, o, PlaceholderNode(n)) : ws \in Paths, o \in CompareOps, n \in {1, 2}}

\* Three placeholders in the conjuncts of one conjunction, in three
\* disjuncts, and in groups nested in each other: x = $i AND (x = $j OR (x = $k))
Bind(n) == Term(Predicate(<<"x">>, "=", PlaceholderNode(n)))
BindShapes(i, j, k) ==
    {QueryNode(Disjunction(<<Conjunction(<<Bind(i), Bind(j), Bind(k)>>)>>), <<>>),
     QueryNode(Disjunction(<<Conjunction(<<Bind(i)>>), Conjunction(<<Bind(j)>>),
                             Conjunction(<<Bind(k)>>)>>), <<>>),
     QueryNode(Disjunction(<<Conjunction(<<
         Bind(i),
         Group(Disjunction(<<
             Conjunction(<<Bind(j)>>),
             Conjunction(<<Group(Disjunction(<<Conjunction(<<Bind(k)>>)>>))>>)>>))>>)>>),
               <<>>)}
\* the placeholder numbers used: none (0), the bound one, two beyond the list
BindIndexes == 0 .. 3

\* Trees over predicates of a given truth value:
\*   b1 OR b2 AND b3,  (b1 OR b2) AND b3,  b1 AND (b2 OR b3 AND (b4 OR b1))
Given(b) == Term(BooleanExpression(b))
TruthShapes(b1, b2, b3, b4) ==
    {QueryNode(Disjunction(<<Conjunction(<<Given(b1)>>),
                             Conjunction(<<Given(b2), Given(b3)>>)>>), <<>>),
     QueryNode(Disjunction(<<Conjunction(<<
         Group(Disjunction(<<Conjunction(<<Given(b1)>>), Conjunction(<<Given(b2)>>)>>)),
         Given(b3)>>)>>), <<>>),
     QueryNode(Disjunction(<<Conjunction(<<
         Given(b1),
         Group(Disjunction(<<
             Conjunction(<<Given(b2)>>),
             Conjunction(<<Given(b3),
                           Group(Disjunction(<<Conjunction(<<Given(b4)>>),
                                               Conjunction(<<Given(b1)>>)>>))>>)>>))>>)>>),
               <<>>)}
TruthValues == {"true", "false"}

\* p1 = "<str>" AND (p2 > $1 OR p3 = $2) ORDER BY CAST(p2) DESC LIMIT <n>
EndToEnd(str, n) ==
    QueryNode(
        Disjunction(<<Conjunction(<<
            Term(Predicate(<<"p1">>, "=", StringNode(str))),
            Group(Disjunction(<<
                Conjunction(<<Term(Predicate(<<"p2">>, ">", PlaceholderNode(1)))>>),
                Conjunction(<<Term(Predicate(<<"p3">>, "=", PlaceholderNode(2)))>>)>>))>>)>>),
        <<OrderNode(<<"p2">>, TRUE, "desc"), LimitNode(n)>>)
\* the parameter lists [integer, boolean] bound to it
EndToEndParams ==
    {<<GoInt(<<i>>), Bool(<<b>>)>> : i \in {"3", "7"}, b \in {"true", "false"}}

\* ------------------------------------------------------- the memory store
\* The instances the store is given: testModel{id, name} with name indexed,
\* in collection test_models, and testModel2{name}, whose ID is its name, in
\* test_models2.  An ID is a Go value: int64(1) and "1" are different keys.
Names == {"foo", "bar", "fii"}
Instances ==
    {[coll |-> "test_models", id |-> [t |-> "int64", v |-> i], name |-> n] :
        i \in {"1", "2"}, n \in Names}
    \cup {[coll |-> "test_models2", id |-> [t |-> "string", v |-> n], name |-> n] :
             n \in {"foo", "1"}}
Keys == {[coll |-> x.coll, id |-> x.id] : x \in Instances}
\* the fields tagged `index:"true"`
IndexedFields(coll) == IF coll = "test_models" THEN {"name"} ELSE {}
IndexEntries(x) ==
    {[coll |-> x.coll, field |-> f, value |-> x[f], id |-> x.id] : f \in IndexedFields(x.coll)}

\* NewMemoryStore(): no instance, no index entry; call is the last call made,
\* ret "ok" (a nil error) or "error", out what it returned.
NewMemoryStore == [storage |-> {}, index |-> {}, call |-> <<"none">>, ret |-> "ok", out |-> {}]

\* db.subMap(instance): the instances of one collection
subMap(coll) == {y \in mem.storage : y.coll = coll}
Present(coll, id) == {y \in subMap(coll) : y.id = id}
\* db.subMapForFieldName(instance, field), looked up at v: the stored
\* instances an index entry of that value points to
Indexed(coll, field, v) ==
    {y \in subMap(coll) :
        \E e \in mem.index : e.coll = coll /\ e.field = field /\ e.value = v /\ e.id = y.id}

\* an Insert that overwrites the instance stored under the same ID
MemoryInsertOverwrites(x) ==
    /\ mem' = [storage |-> (mem.storage \ Present(x.coll, x.id)) \cup {x},
               index |-> {e \in mem.index : ~(e.coll = x.coll /\ e.id = x.id)}
                         \cup IndexEntries(x),
               call |-> <<"Insert", x>>, ret |-> "ok", out |-> {}]
    /\ UNCHANGED <<svars, mvars, compile, lru, tx, yvars>>
MemoryInsert(x) ==
    /\ mem' = IF Present(x.coll, x.id) # {}
              THEN [mem EXCEPT !.call = <<"Insert", x>>, !.ret = "error", !.out = {}]
              ELSE [storage |-> mem.storage \cup {x},
                    index |-> mem.index \cup IndexEntries(x),
                    call |-> <<"Insert", x>>, ret |-> "ok", out |-> {}]
    /\ UNCHANGED <<svars, mvars, compile, lru, tx, yvars>>

MemoryList(coll) ==
    /\ mem' = [mem EXCEPT !.call = <<"List", coll>>, !.ret = "ok", !.out = subMap(coll)]
    /\ UNCHANGED <<svars, mvars, compile, lru, tx, yvars>>

MemoryGet(k) ==
    /\ mem' = [mem EXCEPT !.call = <<"Get", k>>,
                          !.ret = IF Present(k.coll, k.id) = {} THEN "error" ELSE "ok",
                          !.out = Present(k.coll, k.id)]
    /\ UNCHANGED <<svars, mvars, compile, lru, tx, yvars>>

\* Find returns one of the instances the index holds under the value
MemoryFind(coll, field, v) ==
    /\ \/ /\ Indexed(coll, field, v) = {}
          /\ mem' = [mem EXCEPT !.call = <<"Find", coll, field, v>>, !.ret = "error",
                                !.out = {}]
       \/ \E y \in Indexed(coll, field, v) :
             mem' = [mem EXCEPT !.call = <<"Find", coll, field, v>>, !.ret = "ok",
                                !.out = {y}]
    /\ UNCHANGED <<svars, mvars, compile, lru, tx, yvars>>

\* an Update that adds the new index entry and leaves the old one
MemoryUpdateKeepsIndex(x) ==
    /\ mem' = IF Present(x.coll, x.id) = {}
              THEN [mem EXCEPT !.call = <<"Update", x>>, !.ret = "error", !.out = {}]
              ELSE [storage |-> (mem.storage \ Present(x.coll, x.id)) \cup {x},
                    index |-> mem.index \cup IndexEntries(x),
                    call |-> <<"Update", x>>, ret |-> "ok", out |-> {}]
    /\ UNCHANGED <<svars, mvars, compile, lru, tx, yvars>>
MemoryUpdate(x) ==
    /\ mem' = IF Present(x.coll, x.id) = {}
              THEN [mem EXCEPT !.call = <<"Update", x>>, !.ret = "error", !.out = {}]
              ELSE [storage |-> (mem.storage \ Present(x.coll, x.id)) \cup {x},
                    index |-> {e \in mem.index : ~(e.coll = x.coll /\ e.id = x.id)}
                              \cup IndexEntries(x),
                    call |-> <<"Update", x>>, ret |-> "ok", out |-> {}]
    /\ UNCHANGED <<svars, mvars, compile, lru, tx, yvars>>

MemoryDelete(k) ==
    /\ mem' = IF Present(k.coll, k.id) = {}
              THEN [mem EXCEPT !.call = <<"Delete", k>>, !.ret = "error", !.out = {}]
              ELSE [storage |-> mem.storage \ Present(k.coll, k.id),
                    index |-> {e \in mem.index : ~(e.coll = k.coll /\ e.id = k.id)},
                    call |-> <<"Delete", k>>, ret |-> "ok", out |-> {}]
    /\ UNCHANGED <<svars, mvars, compile, lru, tx, yvars>>

\* --------------------------------------------------------- the LRU cache
\* The keys and values the callers use; one key more than the largest cache
\* holds, so that a full cache of every capacity meets a new key.
CacheKeys == {"foo", "bar", "a", "b"}
CacheValues == {"bar", "baz"}
\* before NewLRUCache, and after a NewLRUCache that failed: no cache
NoCache == [size |-> 0, entries |-> <<>>, call |-> <<"none">>, ret |-> "ok"]

CacheIndex(key) == {i \in DOMAIN lru.entries : lru.entries[i].key = key}
Without(key) == SelectSeq(lru.entries, LAMBDA e : e.key # key)

\* NewLRUCache(size): an error for size <= 0, else an empty cache
NewLRUCache(size) ==
    /\ lru' = IF size <= 0
              THEN [size |-> 0, entries |-> <<>>, call |-> <<"NewLRUCache", size>>,
                    ret |-> "size must be greater than 0"]
              ELSE [size |-> size, entries |-> <<>>, call |-> <<"NewLRUCache", size>>,
                    ret |-> "ok"]
    /\ UNCHANGED <<svars, mvars, compile, mem, tx, yvars>>

\* an Add that never evicts
LRUCacheAddKeepsAll(key, value) ==
    /\ lru.size > 0
    /\ lru' = [lru EXCEPT !.entries = <<[key |-> key, value |-> value]>> \o Without(key),
                          !.call = <<"Add", key, value>>,
                          !.ret = FALSE]
    /\ UNCHANGED <<svars, mvars, compile, mem, tx, yvars>>
\* cache.Add(key, value): the key becomes the most recently used; a key that
\* does not fit evicts the least recently used one.  Returns whether it evicted.
LRUCacheAdd(key, value) ==
    /\ lru.size > 0
    /\ lru' = [lru EXCEPT !.entries = SubSeq(<<[key |-> key, value |-> value]>> \o Without(key),
                                             1, IF Len(Without(key)) + 1 > lru.size
                                                THEN lru.size ELSE Len(Without(key)) + 1),
                          !.call = <<"Add", key, value>>,
                          !.ret = Len(Without(key)) + 1 > lru.size]
    /\ UNCHANGED <<svars, mvars, compile, mem, tx, yvars>>

\* cache.Get(key): the value and true, and the key becomes the most recently
\* used; nil and false for a key that is not cached
LRUCacheGet(key) ==
    /\ lru.size > 0
    /\ lru' = [lru EXCEPT !.entries = SelectSeq(lru.entries, LAMBDA e : e.key = key)
                                         \o Without(key),
                          !.call = <<"Get", key>>,
                          !.ret = IF CacheIndex(key) = {} THEN <<"nil", FALSE>>
                                  ELSE <<lru.entries[CHOOSE i \in CacheIndex(key) : TRUE].value,
                                         TRUE>>]
    /\ UNCHANGED <<svars, mvars, compile, mem, tx, yvars>>

\* cache.Contains(key): whether the key is cached; the order is left alone
LRUCacheContains(key) ==
    /\ lru.size > 0
    /\ lru' = [lru EXCEPT !.call = <<"Contains", key>>, !.ret = CacheIndex(key) # {}]
    /\ UNCHANGED <<svars, mvars, compile, mem, tx, yvars>>

\* cache.Purge()
LRUCachePurge ==
    /\ lru.size > 0
    /\ lru' = [lru EXCEPT !.entries = <<>>, !.call = <<"Purge">>, !.ret = "ok"]
    /\ UNCHANGED <<svars, mvars, compile, mem, tx, yvars>>

\* cache.Len()
LRUCacheLen ==
    /\ lru.size > 0
    /\ lru' = [lru EXCEPT !.call = <<"Len">>, !.ret = Len(lru.entries)]
    /\ UNCHANGED <<svars, mvars, compile, mem, tx, yvars>>

\* ------------------------------------------------- SOAP remote endpoints
\* The status of a remote endpoint, as the controller hooks and processWsdl
\* name it.
RemoteEndpointStatusPending == "Pending"
RemoteEndpointStatusProcessing == "Processing"
RemoteEndpointStatusSuccess == "Success"
RemoteEndpointStatusFailed == "Failed"

\* How many times the endpoint is saved, hence how many processWsdl runs start.
MaxRuns == 2
Runs == 1 .. MaxRuns

\* A run of processWsdl: pc is where it stands ("idle": not started; "start",
\* "ingest", "final": before its first, second, third transaction; "done":
\* returned), status is e.RemoteEndpoint.Status, err whether ingestWsdl failed.
IdleRun == [pc |-> "idle", status |-> "", err |-> FALSE]
NoSoap == [row |-> "none", status |-> "", runs |-> [r \in Runs |-> IdleRun],
           call |-> "none", ret |-> "nil"]

InFlight(s) == {r \in Runs : s.runs[r].pc \in {"start", "ingest", "final"}}
IdleRuns(s) == {r \in Runs : s.runs[r].pc = "idle"}
FirstIdle(s) == CHOOSE r \in IdleRuns(s) : \A q \in IdleRuns(s) : r <= q

\* tx.PostCommit of SoapRemoteEndpoint.Insert and update: go afterSave(tx, e.Copy()).
PostCommit(s, status) ==
    [s.runs EXCEPT ![FirstIdle(s)] = [pc |-> "start", status |-> status, err |-> FALSE]]

\* BeforeUpdate with a new WSDL in the request: the error, and the status the
\* hook leaves in remoteEndpoint.
BeforeUpdate(status) ==
    IF status = RemoteEndpointStatusPending
    THEN [err |-> TRUE, status |-> status]
    ELSE [err |-> FALSE, status |-> RemoteEndpointStatusPending]

BeforeDelete(status) ==
    [err |-> status = RemoteEndpointStatusPending, status |-> status]

\* POST of a SOAP remote endpoint: BeforeInsert, the two inserts, the commit and
\* PostCommit; fault is a failure of the transaction.
SoapInsert ==
    /\ soap.row = "none"
    /\ \E fault \in BOOLEAN :
        soap' = IF fault
                THEN [soap EXCEPT !.call = "Insert", !.ret = "error"]
                ELSE [soap EXCEPT !.row = "present",
                                  !.status = RemoteEndpointStatusPending,
                                  !.runs = PostCommit(soap, RemoteEndpointStatusPending),
                                  !.call = "Insert", !.ret = "nil"]
    /\ UNCHANGED <<zvars, push, router, jar>>

\* PUT of the endpoint with a new WSDL: BeforeUpdate on the endpoint's status,
\* the two updates, the commit and PostCommit.
SoapUpdate ==
    /\ soap.row = "present"
    /\ IdleRuns(soap) # {}
    /\ LET hook == BeforeUpdate(soap.status)
       IN  \E fault \in BOOLEAN :
            soap' = IF hook.err \/ fault
                    THEN [soap EXCEPT !.call = "Update", !.ret = "error"]
                    ELSE [soap EXCEPT !.status = hook.status,
                                      !.runs = PostCommit(soap, hook.status),
                                      !.call = "Update", !.ret = "nil"]
    /\ UNCHANGED <<zvars, push, router, jar>>

\* DELETE of the endpoint: BeforeDelete on the endpoint's status, the delete and
\* the commit.
SoapDelete ==
    /\ soap.row = "present"
    /\ LET hook == BeforeDelete(soap.status)
       IN  \E fault \in BOOLEAN :
            soap' = IF hook.err \/ fault
                    THEN [soap EXCEPT !.call = "Delete", !.ret = "error"]
                    ELSE [soap EXCEPT !.row = "deleted", !.call = "Delete", !.ret = "nil"]
    /\ UNCHANGED <<zvars, push, router, jar>>

\* Whether a transaction of processWsdl that updates the endpoint's rows
\* commits: UpdateOne fails when the row is gone.
Commits(s, fault) == ~fault /\ s.row = "present"

\* processWsdl, first transaction: the status becomes Processing; a failure is
\* logged and processing goes on.
processWsdlProcessing(r) ==
    /\ soap.runs[r].pc = "start"
    /\ \E fault \in BOOLEAN :
        soap' = [soap EXCEPT
                   !.runs[r].pc = "ingest",
                   !.runs[r].status = RemoteEndpointStatusProcessing,
                   !.status = IF Commits(soap, fault)
                              THEN RemoteEndpointStatusProcessing ELSE @]
    /\ UNCHANGED <<zvars, push, router, jar>>

\* processWsdl, second transaction: ingestWsdl, whose error decides the final
\* status; its update of the soap row fails when the row is gone.
processWsdlIngest(r) ==
    /\ soap.runs[r].pc = "ingest"
    /\ \E fault \in BOOLEAN :
        LET err == ~Commits(soap, fault)
        IN  soap' = [soap EXCEPT
                       !.runs[r].pc = "final",
                       !.runs[r].err = err,
                       !.runs[r].status = IF err THEN RemoteEndpointStatusFailed
                                          ELSE RemoteEndpointStatusSuccess]
    /\ UNCHANGED <<zvars, push, router, jar>>

\* processWsdl, third transaction: the final status is written; a failure is
\* logged, and processWsdl returns.
processWsdlFinal(r) ==
    /\ soap.runs[r].pc = "final"
    /\ \E fault \in BOOLEAN :
        soap' = [soap EXCEPT
                   !.runs[r].pc = "done",
                   !.status = IF Commits(soap, fault) THEN soap.runs[r].status ELSE @]
    /\ UNCHANGED <<zvars, push, router, jar>>

processWsdl(r) ==
    \/ processWsdlProcessing(r)
    \/ processWsdlIngest(r)
    \/ processWsdlFinal(r)

\* ------------------------------------------------------ MQTT session topics
\* The sessions that subscribe to the same topic of the same remote endpoint.
Sessions == {1, 2}
\* time.Now().Unix() runs from 0 to MaxClock.
MaxClock == 2
\* 60*60*24*365
Year == 31536000

\* An AddTopic call: pc is where it stands ("idle": not called; "channel",
\* "device": before its first, second transaction; "done": returned), found the
\* id of the channel Find returned (0: none), read that channel's Expires as
\* Find read it, expires the new expiry, channel the id of channel.ID, faulted
\* whether the database failed one of its transactions.
NoAddTopic == [pc |-> "idle", found |-> 0, read |-> 0, expires |-> 0, channel |-> 0,
               ret |-> "nil", faulted |-> FALSE]
\* unique: whether table push_channels holds one row per name; channels: the
\* Expires of the rows of this name by id; devices: the PushChannelID of every
\* session's device (0: no device).
NoPush == [unique |-> FALSE, now |-> 0, channels |-> <<>>,
           devices |-> [s \in Sessions |-> 0],
           call |-> [s \in Sessions |-> NoAddTopic]]

\* AddTopic up to its first transaction: channel.Find and the new expiry. Find
\* returns one row of the name, or an error when there is none.
AddTopicFind(s) ==
    /\ push.call[s].pc \in {"idle", "done"}
    /\ \E id \in IF push.channels = <<>> THEN {0} ELSE DOMAIN push.channels :
        push' = [push EXCEPT !.call[s] =
                    [pc |-> "channel", found |-> id,
                     read |-> IF id = 0 THEN 0 ELSE push.channels[id],
                     expires |-> push.now + Year, channel |-> 0, ret |-> "nil",
                     faulted |-> FALSE]]
    /\ UNCHANGED <<zvars, soap, router, jar>>

\* AddTopic, first transaction: the channel is inserted when Find found none,
\* and otherwise updated when the Expires that Find read is less than the new
\* expiry. fault is a failure of the transaction; the insert fails as well when
\* the table is unique on the name and the row exists by now.
AddTopicChannel(s) ==
    /\ push.call[s].pc = "channel"
    /\ LET c == push.call[s]
           taken == push.unique /\ push.channels # <<>>
       IN  \E fault \in BOOLEAN :
            push' =
                IF fault \/ (c.found = 0 /\ taken)
                THEN [push EXCEPT !.call[s].pc = "done", !.call[s].ret = "error",
                                  !.call[s].faulted = fault]
                ELSE IF c.found = 0
                THEN [push EXCEPT !.channels = Append(@, c.expires),
                                  !.call[s].pc = "device",
                                  !.call[s].channel = Len(push.channels) + 1]
                ELSE IF c.read < c.expires
                THEN [push EXCEPT !.channels[c.found] = c.expires,
                                  !.call[s].pc = "device",
                                  !.call[s].channel = c.found]
                ELSE [push EXCEPT !.call[s].pc = "device",
                                  !.call[s].channel = c.found]
    /\ UNCHANGED <<zvars, soap, router, jar>>

\* AddTopic, second transaction: the session's device is inserted, or updated,
\* with PushChannelID = channel.ID.
AddTopicDevice(s) ==
    /\ push.call[s].pc = "device"
    /\ \E fault \in BOOLEAN :
        push' = IF fault
                THEN [push EXCEPT !.call[s].pc = "done", !.call[s].ret = "error",
                                  !.call[s].faulted = TRUE]
                ELSE [push EXCEPT !.devices[s] = push.call[s].channel,
                                  !.call[s].pc = "done", !.call[s].ret = "nil"]
    /\ UNCHANGED <<zvars, soap, router, jar>>

AddTopic(s) ==
    \/ AddTopicFind(s)
    \/ AddTopicChannel(s)
    \/ AddTopicDevice(s)

\* A second passes.
Tick ==
    /\ push.now < MaxClock
    /\ push' = [push EXCEPT !.now = @ + 1]
    /\ UNCHANGED <<zvars, soap, router, jar>>

\* ------------------------------------------------------------------ router
\* How many routes a script returns.
MaxRoutes == 2

\* The routes a script's routeData returns, as json.Unmarshal fills jsRoute: the
\* zero value for a key that is absent.
JsRoutes ==
    [Name : {"", "a"}, Methods : {<<>>, <<"GET">>}, Schemes : {<<>>}, Host : {"", "h"},
     Path : {"", "/p"}, PathPrefix : {""}, Headers : {<<>>}, Queries : {<<>>}]
Scripts == UNION {[1 .. n -> JsRoutes] : n \in 0 .. MaxRoutes}

\* mux.Router.NewRoute: a route with no name and no matcher, registered with the
\* router.
NewRoute(mux) == Append(mux, [name |-> "", matchers |-> <<>>])

\* The matchers addRoute adds to a named route, in its order.
Matchers(js) ==
    (IF Len(js.Methods) > 0 THEN <<<<"Methods", js.Methods>>>> ELSE <<>>)
    \o (IF Len(js.Schemes) > 0 THEN <<<<"Schemes", js.Schemes>>>> ELSE <<>>)
    \o (IF js.Host # "" THEN <<<<"Host", js.Host>>>> ELSE <<>>)
    \o (IF js.Path # "" THEN <<<<"Path", js.Path>>>> ELSE <<>>)
    \o (IF js.PathPrefix # "" THEN <<<<"PathPrefix", js.PathPrefix>>>> ELSE <<>>)
    \o (IF Len(js.Headers) > 0 THEN <<<<"Headers", js.Headers>>>> ELSE <<>>)
    \o (IF Len(js.Queries) > 0 THEN <<<<"Queries", js.Queries>>>> ELSE <<>>)

\* addRoute: the router afterwards and the error.
addRoute(js, mux) ==
    LET registered == NewRoute(mux)
    IN  IF js.Name = ""
        THEN [mux |-> registered, err |-> TRUE]
        ELSE [mux |-> [registered EXCEPT ![Len(registered)] =
                          [name |-> js.Name, matchers |-> Matchers(js)]],
              err |-> FALSE]

\* The loop of ParseRoutes over jsRoutes[i ..], which drops addRoute's error.
RECURSIVE AddRoutes(_, _, _)
AddRoutes(jsRoutes, i, mux) ==
    IF i > Len(jsRoutes) THEN mux
    ELSE AddRoutes(jsRoutes, i + 1, addRoute(jsRoutes[i], mux).mux)

NoRouter == [MUXRouter |-> [set |-> FALSE, routes |-> <<>>], jsRoutes |-> <<>>,
             ret |-> "none"]

\* Router.ParseRoutes on a script whose routeData returns jsRoutes; fault is a
\* script that fails to run or a result that is no array of routes.
ParseRoutes ==
    /\ \E jsRoutes \in Scripts, fault \in BOOLEAN :
        router' = IF fault
                  THEN [router EXCEPT !.jsRoutes = <<>>, !.ret = "error"]
                  ELSE [MUXRouter |-> [set |-> TRUE,
                                       routes |-> AddRoutes(jsRoutes, 1, <<>>)],
                        jsRoutes |-> jsRoutes, ret |-> "nil"]
    /\ UNCHANGED <<zvars, soap, push, jar>>

\* ---------------------------------------------------------------- jar cache
soapRemoteEndpoints == "soap_remote_endpoints"

\* The ids of SOAP remote endpoints, and of APIs.
MaxSoap == 2
SoapIds == 1 .. MaxSoap
\* The generated jars, and hex.EncodeToString(md5.Sum(bytes)) of each.
Jars == {"jar1", "jar2"}
Md5Hex(bytes) == IF bytes = "jar1" THEN "d1" ELSE "d2"

\* A row of soap_remote_endpoints: the API of its remote endpoint, generated_jar
\* and generated_jar_thumbprint ("NULL" before the first ingestion).
NoRow == [exists |-> FALSE, api |-> 0, generated_jar |-> "NULL",
          generated_jar_thumbprint |-> "NULL"]
NoFile == "ENOENT"
Notification(table, apiID, id, event) ==
    [Table |-> table, APIID |-> apiID, Messages |-> <<id>>, Event |-> event]
NoJar == [db |-> [id \in SoapIds |-> NoRow], files |-> [id \in SoapIds |-> NoFile],
          queue |-> <<>>, n |-> <<>>]

\* GetGeneratedJarBytes: generated_jar of the row with the id whose thumbprint
\* is not the checksum, "NULL" (nil) when no row qualifies.
GetGeneratedJarBytes(db, soapRemoteEndpointID, checksum) ==
    LET row == db[soapRemoteEndpointID]
    IN  IF /\ row.exists
           /\ row.generated_jar_thumbprint # "NULL"
           /\ row.generated_jar_thumbprint # checksum
        THEN row.generated_jar
        ELSE "NULL"

\* cacheJarFile: the files afterwards.
cacheJarFile(db, files, soapRemoteEndpointID) ==
    LET hexsum == IF files[soapRemoteEndpointID] = NoFile THEN ""
                  ELSE Md5Hex(files[soapRemoteEndpointID])
        fileBytes == GetGeneratedJarBytes(db, soapRemoteEndpointID, hexsum)
    IN  IF fileBytes # "NULL"
        THEN [files EXCEPT ![soapRemoteEndpointID] = fileBytes]
        ELSE files

\* DeleteJarFile: os.Remove of the file, an error when there is none.
DeleteJarFile(files, soapRemoteEndpointID) ==
    [files EXCEPT ![soapRemoteEndpointID] = NoFile]

\* soapNotificationListener.Notify on the notification under way.
Notify ==
    /\ jar.queue # <<>>
    /\ LET n == jar.queue[1]
       IN  jar' = [jar EXCEPT
                     !.queue = <<>>,
                     !.n = <<n>>,
                     !.files =
                        IF n.Table # soapRemoteEndpoints THEN @
                        ELSE IF n.Event \in {"Update", "Insert"}
                        THEN cacheJarFile(jar.db, @, n.APIID)
                        ELSE IF n.Event = "Delete"
                        THEN DeleteJarFile(@, n.Messages[1])
                        ELSE @]
    /\ UNCHANGED <<zvars, soap, push, router>>

\* SoapRemoteEndpoint.Insert, committed: the row, and the notification
\* (table, APIID, e.ID, Insert).
JarInsert ==
    /\ jar.queue = <<>>
    /\ \E id \in SoapIds, api \in SoapIds :
        /\ ~jar.db[id].exists
        /\ jar' = [jar EXCEPT
                     !.db[id] = [NoRow EXCEPT !.exists = TRUE, !.api = api],
                     !.queue = <<Notification(soapRemoteEndpoints, api, id, "Insert")>>]
    /\ UNCHANGED <<zvars, soap, push, router>>

\* ingestWsdl, committed: update(tx, false, true) stores the generated jar and
\* its thumbprint, and the notification (table, APIID, e.ID, Update).
JarUpdate ==
    /\ jar.queue = <<>>
    /\ \E id \in SoapIds, bytes \in Jars :
        /\ jar.db[id].exists
        /\ jar' = [jar EXCEPT
                     !.db[id].generated_jar = bytes,
                     !.db[id].generated_jar_thumbprint = Md5Hex(bytes),
                     !.queue = <<Notification(soapRemoteEndpoints, jar.db[id].api, id,
                                              "Update")>>]
    /\ UNCHANGED <<zvars, soap, push, router>>

\* The endpoint deleted, committed, and the notification of AfterDelete.
JarDelete ==
    /\ jar.queue = <<>>
    /\ \E id \in SoapIds :
        /\ jar.db[id].exists
        /\ jar' = [jar EXCEPT
                     !.db[id] = NoRow,
                     !.queue = <<Notification(soapRemoteEndpoints, jar.db[id].api, id,
                                              "Delete")>>]
    /\ UNCHANGED <<zvars, soap, push, router>>

\* A notification on another table.
JarOther ==
    /\ jar.queue = <<>>
    /\ \E id \in SoapIds, api \in SoapIds, event \in {"Insert", "Update", "Delete"} :
        jar' = [jar EXCEPT !.queue = <<Notification("remote_endpoints", api, id, event)>>]
    /\ UNCHANGED <<zvars, soap, push, router>>

InitX ==
    /\ compile = NoCompile
    /\ mem = NewMemoryStore
    /\ lru = NoCache
    /\ tx = [del |-> NoDelete, ins |-> NoInsert]
    /\ soap = NoSoap
    /\ push = NoPush
    /\ router = NoRouter
    /\ jar = NoJar

\* ------------------------------------------------------------ specification
\* The store on a migrated database.
Init ==
    /\ rows = {}
    /\ nextId = 1
    /\ op = NoOp
    /\ schemaTable = [exists |-> TRUE, versions |-> <<postgresCurrentVersion>>]
    /\ objectsTable = TRUE
    /\ mig = [p \in Procs |-> Idle]
    /\ InitX

\* The store with single-document inserts, reads, updates and deletes.
Next ==
    \/ \E sc \in Scopes, o \in Elems, f \in {[at |-> "none", k |-> 0], [at |-> "stmt", k |-> 1]} :
          Insert(sc[1], sc[2], o, f)
    \/ \E sc \in Scopes, id \in 1..MaxId, f \in BOOLEAN :
          SelectByID(sc[1], sc[2], id, f)
    \/ \E sc \in Scopes, id \in 1..MaxId, o \in Elems, f \in BOOLEAN :
          UpdateByID(sc[1], sc[2], id, o, f)
    \/ \E sc \in Scopes, id \in 1..MaxId, f \in BOOLEAN :
          DeleteByID(sc[1], sc[2], id, f)
    \/ \E sc \in Scopes, call \in Calls, f \in SelectFaults :
          Select(sc[1], sc[2], call[1], call[2], f)
    \/ \E sc \in Scopes, call \in Calls, f \in DeleteFaults :
          Delete(sc[1], sc[2], call[1], call[2], f)

Spec == Init /\ [][Next]_vars

\* The store under bulk inserts with every backend failure.
NextBatch ==
    \/ \E sc \in Scopes, o \in Batches, f \in InsertFaults :
          Insert(sc[1], sc[2], o, f)
    \/ \E sc \in Scopes, id \in 1..MaxId, f \in BOOLEAN :
          SelectByID(sc[1], sc[2], id, f)
    \/ \E sc \in Scopes, id \in 1..MaxId, f \in BOOLEAN :
          DeleteByID(sc[1], sc[2], id, f)

SpecBatch == Init /\ [][NextBatch]_vars

\* The store under queries that compare a path with a placeholder.
NextNull ==
    \/ \E sc \in Scopes, o \in Docs : Insert(sc[1], sc[2], o, [at |-> "none", k |-> 0])
    \/ \E sc \in Scopes, id \in 1..MaxId : DeleteByID(sc[1], sc[2], id, FALSE)
    \/ \E sc \in Scopes, call \in NullCalls, f \in {"none", "query"} :
          Select(sc[1], sc[2], call[1], call[2], f)
    \/ \E sc \in Scopes, call \in NullCalls :
          Delete(sc[1], sc[2], call[1], call[2], [at |-> "none", k |-> 0])

SpecNull == Init /\ [][NextNull]_vars

\* A Delete that runs statement by statement while other callers insert,
\* update and delete in its tenant and collection, and in another tenant.
Clean == [at |-> "none", k |-> 0]
Tenants == {<<1, "c1">>, <<2, "c1">>}
NextWriters ==
    \/ \E sc \in Tenants, f \in {Clean, [at |-> "stmt", k |-> 1], [at |-> "commit", k |-> 0]} :
          DeleteBeginx(sc[1], sc[2], 2, 1, f)
    \/ DeleteSelect
    \/ DeleteStmt
    \/ DeleteDeferred
    \/ \E sc \in Tenants, o \in Docs : Insert(sc[1], sc[2], o, Clean)
    \/ \E sc \in Tenants, id \in 1..MaxId, o \in Docs :
          Unlocked(sc[1], sc[2], id) /\ UpdateByID(sc[1], sc[2], id, o, FALSE)
    \/ \E sc \in Tenants, id \in 1..MaxId :
          Unlocked(sc[1], sc[2], id) /\ DeleteByID(sc[1], sc[2], id, FALSE)
SpecWriters == Init /\ [][NextWriters]_vars

\* The store under updates that bring fields the stored bodies do not have.
Replacements == Docs \cup {GoMap([k \in {"y", "$id"} |-> IF k = "y" THEN Str(B) ELSE Float64(<<"7">>)])}
NextUpdate ==
    \/ \E sc \in Scopes, o \in Docs : Insert(sc[1], sc[2], o, Clean)
    \/ \E sc \in Scopes, id \in 1..MaxId, o \in Replacements \cup {NotAMap}, f \in BOOLEAN :
          UpdateByID(sc[1], sc[2], id, o, f)
SpecUpdate == Init /\ [][NextUpdate]_vars

\* An Insert that runs statement by statement while other callers read.
NextReaders ==
    \/ \E sc \in Tenants, o \in Batches \cup {NotAMap},
          f \in {Clean, [at |-> "stmt", k |-> BatchLen], [at |-> "commit", k |-> 0]} :
          InsertBeginx(sc[1], sc[2], o, f)
    \/ InsertAdd
    \/ InsertDeferred
    \/ \E sc \in Tenants, id \in 1..MaxId : SelectByID(sc[1], sc[2], id, FALSE)
    \/ \E sc \in Tenants : Select(sc[1], sc[2], 2, 1, "none")
SpecReaders == Init /\ [][NextReaders]_vars

\* The compiler run on one query after another.
NextCompile ==
    \/ \E e \in NumberPredicates : Compile(OnePredicate(e), <<>>)
    \/ \E e \in LiteralPredicates : Compile(OnePredicate(e), <<>>)
    \/ \E str \in {A, B}, n \in {"3", "7"}, param \in EndToEndParams :
          Compile(EndToEnd(str, n), param)
    \/ \E e \in PlaceholderPredicates, v \in ParamValues :
          Compile(OnePredicate(e), <<v, v>>)
    \/ \E b1 \in TruthValues, b2 \in TruthValues, b3 \in TruthValues, b4 \in TruthValues :
          \E ast \in TruthShapes(b1, b2, b3, b4) : Compile(ast, <<>>)
    \/ \E i \in BindIndexes, j \in BindIndexes, k \in BindIndexes :
          \E ast \in BindShapes(i, j, k) : Compile(ast, <<Str(A)>>)
SpecCompile == Init /\ [][NextCompile]_vars

\* The memory store under any sequence of calls.
NextMemory ==
    \/ \E x \in Instances : MemoryInsert(x)
    \/ \E x \in Instances : MemoryList(x.coll)
    \/ \E k \in Keys : MemoryGet(k)
    \/ \E x \in Instances : MemoryFind(x.coll, "name", x.name)
    \/ \E x \in Instances : MemoryUpdate(x)
    \/ \E k \in Keys : MemoryDelete(k)
SpecMemory == Init /\ [][NextMemory]_vars

\* An LRU cache of every capacity under any sequence of calls.
NextLRU ==
    \/ \E size \in -1 .. MaxSize : NewLRUCache(size)
    \/ \E key \in CacheKeys, value \in CacheValues : LRUCacheAdd(key, value)
    \/ \E key \in CacheKeys : LRUCacheGet(key)
    \/ \E key \in CacheKeys : LRUCacheContains(key)
    \/ LRUCachePurge
    \/ LRUCacheLen
SpecLRU == Init /\ [][NextLRU]_vars

\* A SOAP remote endpoint, its controller calls and its processWsdl runs.
NextSoap ==
    \/ SoapInsert
    \/ SoapUpdate
    \/ SoapDelete
    \/ \E r \in Runs : processWsdl(r)
SpecSoap == Init /\ [][NextSoap]_vars

\* Two MQTT sessions that subscribe to one topic, on a table push_channels
\* with or without a unique index on the name.
InitPush ==
    /\ rows = {} /\ nextId = 1 /\ op = NoOp
    /\ schemaTable = [exists |-> TRUE, versions |-> <<postgresCurrentVersion>>]
    /\ objectsTable = TRUE
    /\ mig = [p \in Procs |-> Idle]
    /\ compile = NoCompile /\ mem = NewMemoryStore /\ lru = NoCache
    /\ tx = [del |-> NoDelete, ins |-> NoInsert]
    /\ soap = NoSoap
    /\ router = NoRouter
    /\ jar = NoJar
    /\ \E u \in BOOLEAN : push = [NoPush EXCEPT !.unique = u]
NextPush ==
    \/ \E s \in Sessions : AddTopic(s)
    \/ Tick
SpecPush == InitPush /\ [][NextPush]_vars

\* A router whose script is parsed again and again.
NextRouter == ParseRoutes
SpecRouter == Init /\ [][NextRouter]_vars

\* SOAP remote endpoints saved and deleted, and the listener of one node.
NextJar ==
    \/ JarInsert
    \/ JarUpdate
    \/ JarDelete
    \/ JarOther
    \/ Notify
SpecJar == Init /\ [][NextJar]_vars

\* A database before the first Migrate: fresh, or left by a later release
\* whose schema is one version ahead.
InitMigrate ==
    /\ rows = {}
    /\ nextId = 1
    /\ op = NoOp
    /\ \/ schemaTable = [exists |-> FALSE, versions |-> <<>>] /\ objectsTable = FALSE
       \/ /\ schemaTable = [exists |-> TRUE, versions |-> <<postgresCurrentVersion + 1>>]
          /\ objectsTable = TRUE
    /\ mig = [p \in Procs |-> Idle]
    /\ InitX

MigrateNext(procs) ==
    \/ \E p \in procs, conf \in BOOLEAN : MigrateStart(p, conf)
    \/ \E p \in procs, fault \in BOOLEAN : MigrateGet(p, fault)
    \/ \E p \in procs, fault \in TxFaults : MigrateBootstrap(p, fault)
    \/ \E p \in procs : MigrateCompare(p)
    \/ \E p \in procs, fault \in TxFaults : MigrateStep1(p, fault)

\* Migrate called again and again by one process.
NextMigrate == MigrateNext({1})
SpecMigrate == InitMigrate /\ [][NextMigrate]_vars

\* Migrate run by two processes at once.
NextMigrate2 == MigrateNext(Procs)
SpecMigrate2 == InitMigrate /\ [][NextMigrate2]_vars

\* ------------------------------------------------------------- properties
\* the identifier attached to a returned document
IdOf(doc) == Atoi(doc.v["$id"].v[1])
\* a document as it is stored: without "$id", serialised
Stored(doc) == Marshal(GoMap(MapDelete(doc.v, "$id")))

\* the placeholder numbers of a query text
RECURSIVE Placeholders(_)
Placeholders(node) ==
    (IF node.rule = "placeholder" THEN {Atoi(node.text[2])} ELSE {})
    \cup UNION {Placeholders(node.up[k]) : k \in 1..Len(node.up)}
\* a placeholder $N with N < 1 or N > len(params)
OutOfRange(qi, pi) ==
    /\ Queries[qi].parse = "ok"
    /\ \E n \in Placeholders(Queries[qi].ast) : n < 1 \/ n > Len(ParamLists[pi])

\* a query text and a parameter list with the contents of their strings removed
RECURSIVE Blank(_)
Blank(node) ==
    [rule |-> node.rule,
     up |-> [k \in 1..Len(node.up) |-> Blank(node.up[k])],
     text |-> IF node.rule = "string" \/ (node.rule = "value" /\ node.up[1].rule = "string")
              THEN <<>> ELSE node.text]
BlankParams(ps) == [k \in 1..Len(ps) |-> IF ps[k].t = "string" THEN Str(<<>>) ELSE ps[k]]
\* two calls that differ only in the contents of their string operands
SameButStrings(c1, c2) ==
    /\ Queries[c1[1]].parse = "ok" /\ Queries[c2[1]].parse = "ok"
    /\ Blank(Queries[c1[1]].ast) = Blank(Queries[c2[1]].ast)
    /\ BlankParams(ParamLists[c1[2]]) = BlankParams(ParamLists[c2[2]])
\* the structure of a statement: its symbols, with every quoted operand's
\* contents removed
Shape(lx) == [k \in 1..Len(lx) |-> IF lx[k].k = "str" THEN "'_'" ELSE lx[k].v[1]]

\* C1: a document whose row belongs to one tenant is never in the result of a
\* Select or SelectByID issued under another tenant.
C1_TenantIsolationOnReads ==
    (op.name \in {"Select", "SelectByID"} /\ op.ret = "ok") =>
        \A k \in 1..Len(op.results) : \A r \in rows :
            r.id = IdOf(op.results[k]) => r.account_id = op.account

\* C2: a bulk Insert in which the backend rejects an element, or serialising
\* an element fails, returns an error and leaves no element of the batch in
\* the store; a bulk Insert that returns no error leaves every element in it.
C2_BatchInsertAtomicity ==
    [][(op'.name = "Insert" /\ op'.arg.t = "slice") =>
          /\ op'.failed # 0 => (op'.ret \in ReturnedErrors /\ rows' = rows)
          /\ op'.ret = "ok" =>
                /\ Len(op'.results) = Len(op'.arg.v)
                /\ \A k \in 1..Len(op'.arg.v) : \E r \in rows' :
                      /\ r.id = IdOf(op'.results[k])
                      /\ r.account_id = op'.account /\ r.collection = op'.collection
                      /\ r.object = Stored(op'.arg.v[k])]_vars
\* the second element of a batch was rejected after the first had been inserted
C2_Witness ==
    /\ op.name = "Insert" /\ op.arg.t = "slice"
    /\ op.failed = 2 /\ op.ret = "BackendError"
    /\ rows = {} /\ nextId = 2

\* C3: no UpdateByID, DeleteByID or Delete issued under one tenant and
\* collection changes or removes a row of another tenant or collection.
C3_TenantIsolationOnWrites ==
    [][op'.name \in {"UpdateByID", "DeleteByID", "Delete"} =>
          \A r \in rows :
              (r.account_id # op'.account \/ r.collection # op'.collection) => r \in rows']_vars
\* a Delete returned documents of which a row of another tenant is still stored
C3_Witness ==
    /\ op.name = "Delete" /\ op.ret = "ok"
    /\ \E r \in rows : \E k \in 1..Len(op.results) :
          r.id = IdOf(op.results[k]) /\ r.account_id # op.account

\* C4: a Select or Delete whose query text has a syntax error or a bind error
\* opens no transaction.
C4_CompileBeforeTransaction ==
    (/\ op.name \in {"Select", "Delete"}
     /\ Queries[op.query].parse = "error" \/ OutOfRange(op.query, op.params))
    => ~op.tx

\* C5: a Select or Delete whose query text has a placeholder outside the bound
\* parameter list returns a BindError and executes no SQL statement.
C5_BindErrorsReachCaller ==
    (op.name \in {"Select", "Delete"} /\ OutOfRange(op.query, op.params))
    => (op.ret = "BindError" /\ ~op.sql)

\* C6: the statement sent for a call has the same structure as the statement
\* sent for any call that differs from it only in the contents of a string
\* operand, literal or bound.
C6_InjectionSafety ==
    (op.name \in {"Select", "Delete"} /\ op.sql) =>
        \A call \in Calls :
            SameButStrings(<<op.query, op.params>>, call) =>
                Shape(Lexed[op.query][op.params]) = Shape(Lexed[call[1]][call[2]])

\* C7: a Delete in which the deletion of a selected row fails returns an error
\* and removes no row; a Delete that succeeds leaves no row of a returned
\* document in the store.
C7_DeleteByQueryAtomicity ==
    [][op'.name = "Delete" =>
          /\ op'.failed # 0 => (op'.ret \in ReturnedErrors /\ rows' = rows)
          /\ op'.ret = "ok" =>
                \A k \in 1..Len(op'.results) : \A r \in rows' :
                    r.id # IdOf(op'.results[k])]_vars

\* C8: UpdateByID of an id with no row in the tenant and collection returns a
\* NotFoundError and no document, and leaves the store unchanged.
C8_UpdateByIDAbsent ==
    [][(/\ op'.name = "UpdateByID" /\ op'.arg \in Docs /\ op'.ret # "BackendError"
        /\ ~\E r \in rows : /\ r.id = op'.id /\ r.account_id = op'.account
                            /\ r.collection = op'.collection)
       => (op'.ret = "NotFound" /\ op'.results = <<>> /\ rows' = rows)]_vars

\* C9: DeleteByID of a stored id removes exactly that row and returns its
\* document with the identifier attached; DeleteByID of an absent id returns
\* no document and no error and changes nothing; SelectByID of an absent id
\* returns an error.
C9_DeleteByID ==
    [][LET m == {r \in rows : /\ r.id = op'.id /\ r.account_id = op'.account
                              /\ r.collection = op'.collection}
       IN /\ (op'.name = "DeleteByID" /\ op'.ret # "BackendError") =>
                IF m # {}
                THEN /\ Cardinality(m) = 1 /\ rows' = rows \ m
                     /\ op'.ret = "ok" /\ Len(op'.results) = 1
                     /\ op'.results[1].v["$id"] = Int64(op'.id)
                     /\ \A r \in m : Stored(op'.results[1]) = r.object
                ELSE rows' = rows /\ op'.ret = "ok" /\ op'.results = <<>>
          /\ (op'.name = "SelectByID" /\ m = {}) => op'.ret \in ReturnedErrors]_vars
\* a DeleteByID returned the document of the row it removed
C9_Witness ==
    /\ op.name = "DeleteByID" /\ op.ret = "ok" /\ Len(op.results) = 1
    /\ ~\E r \in rows : r.id = op.id

\* C10: SelectByID of the identifier Insert returned, under the same tenant
\* and collection, returns the document Insert returned: the identifier is
\* present and every other field is that of the inserted document.
C10_RoundTrip ==
    (op.name = "Insert" /\ op.ret = "ok" /\ op.arg.t = "map") =>
        LET d == op.arg
            ins == op.results[1]
            sel == SelectByIDResult(rows, op.account, op.collection, IdOf(ins), FALSE)
        IN /\ "$id" \in DOMAIN ins.v
           /\ sel.ret = "ok" /\ sel.results = <<ins>>
           /\ DOMAIN ins.v = DOMAIN d.v \cup {"$id"}
           /\ \A key \in DOMAIN d.v \ {"$id"} : ins.v[key] = d.v[key]
\* a document that came with an identifier of its own was inserted
C10_Witness ==
    /\ op.name = "Insert" /\ op.ret = "ok" /\ op.arg.t = "map"
    /\ "$id" \in DOMAIN op.arg.v /\ op.arg.v["$id"] # op.results[1].v["$id"]
    /\ \E r \in rows : r.id = IdOf(op.results[1])

\* the rows the call recorded in op addresses
Target == {r \in rows : /\ r.id = op.id /\ r.account_id = op.account
                        /\ r.collection = op.collection}

\* C11: after UpdateByID(id, d) of a stored id, UpdateByID of the same id with
\* d again, or with the document the first call returned, leaves the rows as
\* they are.
C11_IdempotentUpdate ==
    (op.name = "UpdateByID" /\ op.ret = "ok" /\ Target # {}) =>
        \A d \in {op.arg, op.results[1]} :
            LET again == UpdateByIDResult(rows, op.account, op.collection, op.id, d, FALSE)
            IN again.ret = "ok" /\ again.rows = rows
\* an update of a stored row with a document that carries an identifier
C11_Witness ==
    /\ op.name = "UpdateByID" /\ op.ret = "ok" /\ "$id" \in DOMAIN op.arg.v
    /\ \E r \in Target : r.object = Stored(op.arg)

\* C12: no stored body has the key "$id".
C12_IdentifierNeverPersisted ==
    \A r \in rows : "$id" \notin DOMAIN r.object.v
\* two rows are stored, the last written from a document that carried "$id"
C12_Witness ==
    /\ Cardinality(rows) = 2
    /\ op.name \in {"Insert", "UpdateByID"} /\ op.ret = "ok" /\ op.arg.t = "map"
    /\ "$id" \in DOMAIN op.arg.v
    /\ \E r \in rows : r.id = IdOf(op.results[1]) /\ r.object = Stored(op.arg)

\* the predicate of a query text of one predicate: its operator and operand
ThePredicate(qi) == Queries[qi].ast.up[1].up[1].up[1].up[1].up
OperatorOf(qi) == ThePredicate(qi)[2].text[1]
OperandOf(qi) == ThePredicate(qi)[3].up[1]
\* `path = $N` or `path != $N` with $N bound to null
NullBound(qi, pi) ==
    /\ Queries[qi].parse = "ok"
    /\ OperatorOf(qi) \in {"=", "!="}
    /\ OperandOf(qi).rule = "placeholder"
    /\ Atoi(OperandOf(qi).text[2]) \in 1..Len(ParamLists[pi])
    /\ ParamLists[pi][Atoi(OperandOf(qi).text[2])] = Nil
\* the last n units of a text
Tail_(s, n) == SubSeq(s, Len(s) - n + 1, Len(s))

\* C13: a predicate `path = $N` (`path != $N`) with $N bound to null is sent
\* as an IS NULL (IS NOT NULL) test, and no null is in the argument list
\* passed to the backend with the statement.
C13_NullRewrite ==
    (op.name \in {"Select", "Delete"} /\ op.sql /\ NullBound(op.query, op.params)) =>
        LET s == Compiled[op.query][op.params].s IN
        /\ OperatorOf(op.query) = "=" => Tail_(s, 3) = <<"IS", "NULL", ")">>
        /\ OperatorOf(op.query) = "!=" => Tail_(s, 4) = <<"IS", "NOT", "NULL", ")">>
        /\ \A k \in 1..Len(op.bound) : op.bound[k] # Nil

\* A finished Migrate of process p whose version read succeeded.
ReadDone(p) == mig[p].pc = "done" /\ mig[p].found = "ok"

\* C14: when the version row was read, the version is behind the target and
\* the configuration does not allow migration, Migrate returns the refusal
\* and commits nothing: no DDL, no change of the stored version.
C14_RefusedWhenNotPermitted ==
    \A p \in Procs :
        (ReadDone(p) /\ mig[p].currentVersion < postgresCurrentVersion /\ ~mig[p].conf) =>
            /\ mig[p].ret = "refused"
            /\ mig[p].writes = 0

C14_Witness ==
    /\ ReadDone(1) /\ mig[1].currentVersion < postgresCurrentVersion /\ ~mig[1].conf
    /\ mig[1].ret = "refused"
    /\ schemaTable.versions = <<0>> /\ ~objectsTable

\* C15: once the schema table exists, every step of every Migrate, whatever
\* its version read met and whichever of the two processes takes it, leaves
\* the table with exactly one row, whose version is not below any version the
\* table held before the step.
C15_SchemaVersionInvariant ==
    [][schemaTable'.exists =>
          /\ Len(schemaTable'.versions) = 1
          /\ schemaTable.exists =>
                \A i \in DOMAIN schemaTable.versions :
                    schemaTable'.versions[1] >= schemaTable.versions[i]]_vars

\* The versions a read of the schema table can return: none while the table
\* is absent.
StoredVersions ==
    IF schemaTable.exists THEN {schemaTable.versions[i] : i \in DOMAIN schemaTable.versions}
    ELSE {}

\* C16: whatever statement of a step failed, the committed schema is that of
\* the stored version: the objects table and its indexes exist exactly when
\* the stored version is at least 1, and never while no version is stored.
C16_StepAtomicity ==
    /\ StoredVersions = {} => ~objectsTable
    /\ \A v \in StoredVersions : objectsTable <=> v >= 1

\* The step transaction alone: a step changes the objects table only together
\* with the version bump, and a failed step changes neither.
StepIsOneTransaction ==
    [][(\E p \in Procs : mig[p].pc = "step1" /\ mig'[p].pc = "done") =>
          \/ UNCHANGED <<schemaTable, objectsTable>>
          \/ /\ ~objectsTable /\ objectsTable'
             /\ \A i \in DOMAIN schemaTable'.versions : schemaTable'.versions[i] = 1]_vars

\* C17: a Migrate that found the schema table absent creates it with the one
\* row 0, then goes on to step 1 whether or not the configuration allows
\* migration, and its successful step takes the version from 0 to 1 together
\* with the objects table: absent -> 0 -> 1, no state skipped.
C17_Bootstrap ==
    [][\A p \in Procs :
          (mig[p].found = "absent" /\ mig'[p] # mig[p]) =>
              /\ (mig[p].pc = "bootstrap" /\ mig'[p].pc = "compare") =>
                    /\ ~schemaTable.exists
                    /\ schemaTable' = [exists |-> TRUE, versions |-> <<0>>]
                    /\ ~objectsTable'
              /\ mig[p].pc = "compare" => mig'[p].pc = "step1"
              /\ (mig[p].pc = "step1" /\ mig'[p].ret = "ok") =>
                    /\ schemaTable.versions = <<0>>
                    /\ schemaTable'.versions = <<postgresCurrentVersion>>
                    /\ objectsTable']_vars

C17_Witness ==
    /\ mig[1].pc = "done" /\ mig[1].found = "absent" /\ ~mig[1].conf
    /\ mig[1].ret = "ok" /\ mig[1].writes = 2
    /\ schemaTable = [exists |-> TRUE, versions |-> <<postgresCurrentVersion>>]
    /\ objectsTable

\* C18: whenever a Migrate has returned without error, every version the
\* schema table stores is the target version of the running code.
C18_NoSilentSkew ==
    \A p \in Procs :
        (mig[p].pc = "done" /\ mig[p].ret = "ok") =>
            StoredVersions = {postgresCurrentVersion}

\* C19: a Migrate that read the target version from the schema table has
\* committed nothing and returns success, whatever the migrate flag; the step
\* that returns leaves both tables as they are.
C19_NoOpAtTarget ==
    [][\A p \in Procs :
          (/\ mig[p].pc = "compare" /\ mig'[p] # mig[p]
           /\ mig[p].found = "ok"
           /\ mig[p].currentVersion = postgresCurrentVersion) =>
              /\ mig'[p].pc = "done" /\ mig'[p].ret = "ok"
              /\ mig'[p].writes = 0
              /\ UNCHANGED <<schemaTable, objectsTable>>]_vars

\* a second Migrate, without the flag, after a successful one
C19_Witness ==
    /\ mig[1].pc = "done" /\ mig[1].found = "ok" /\ ~mig[1].conf
    /\ mig[1].currentVersion = postgresCurrentVersion
    /\ mig[1].ret = "ok" /\ mig[1].writes = 0
    /\ schemaTable.versions = <<postgresCurrentVersion>> /\ objectsTable

\* C20: no Store operation and no Migrate ends in a panic: every failure is
\* an error the call returns.
C20_ErrorsAreValues ==
    /\ op.ret # "panic"
    /\ \A p \in Procs : mig[p].ret # "panic"

\* C21: the transaction a Store call began has been ended, by commit or by
\* rollback, when the call is over, and a finished Migrate has left none of
\* its transactions open.
C21_TransactionsEnded ==
    /\ op.tx => op.ended \in {"commit", "rollback"}
    /\ \A p \in Procs : mig[p].pc = "done" => mig[p].open = 0

\* The predicate of the compiled query (path, operator, value nodes), and the
\* SQL compiled for it, without the parentheses put around the disjunction.
CompiledPredicate == compile.ast.up[1].up[1].up[1].up[1].up
CompiledSQL == SubSeq(compile.q.s, 2, Len(compile.q.s) - 1)
\* A query of one predicate (path, operator, operand) was compiled.
CompiledOnePredicate ==
    /\ compile.ast.rule = "e" /\ Len(compile.ast.up) = 1
    /\ Len(compile.ast.up[1].up) = 1
    /\ Len(compile.ast.up[1].up[1].up) = 1
    /\ Len(compile.ast.up[1].up[1].up[1].up) = 1
    /\ compile.ast.up[1].up[1].up[1].up[1].rule = "expression"
    /\ Len(CompiledPredicate) = 3
CompiledNumber ==
    /\ CompiledOnePredicate
    /\ CompiledPredicate[3].up[1].rule = "number"

\* C22: for a predicate whose operand is a number literal, the compiled
\* comparison is CAST(path as T) op literal, with T the integer type exactly
\* when the literal is written without a decimal point and the floating-point
\* type otherwise, and the literal's text as the right-hand operand.
C22_NumericLiteralDispatch ==
    CompiledNumber =>
        LET s == CompiledSQL
            n == Len(CompiledSQL)
            literal == CompiledPredicate[3].up[1].text[1]
            dotted == \E i \in DOMAIN Chars[literal] : Chars[literal][i] = "."
        IN /\ SubSeq(s, 1, 2) = <<"CAST", "(">>
           /\ SubSeq(s, 3, n - 5) = pgProcessPath(CompiledPredicate[1].up, <<>>).s
           /\ s[n - 4] = "as" /\ s[n - 2] = ")"
           /\ s[n - 3] = (IF dotted THEN "FLOAT" ELSE "INTEGER")
           /\ s[n - 1] = CompiledPredicate[2].text[1]
           /\ s[n] = literal

C22_Witness ==
    /\ CompiledNumber
    /\ CompiledPredicate[3].up[1].text = <<"3.0">>
    /\ CompiledSQL = <<"CAST", "(", "object", "->>", "'", "x", "'", "as", "FLOAT", ")",
                       ">=", "3.0">>

\* The predicate and the clauses the end-to-end query is to compile to.
Reference(str, int, bool) ==
    <<"object", "->>", "'", "p1", "'", "=", "'">> \o str \o <<"'", "AND", "(",
      "CAST", "(", "object", "->>", "'", "p2", "'", "as", "INTEGER", ")", ">", int, "OR",
      "CAST", "(", "object", "->>", "'", "p3", "'", "as", "BOOLEAN", ")", "=", bool, ")">>
ReferenceClauses(n) ==
    <<"ORDER", "BY", "CAST", "(", "object", "->>", "'", "p2", "'", "as", "numeric", ")",
      "DESC", "LIMIT", n>>
\* Rows of every tenant and collection to compare two conditions on; p2 is a
\* number or a text that is none.
EndToEndRows ==
    {Row(1, sc[1], sc[2],
         Marshal(GoMap([k \in {"p1", "p2", "p3"} |->
                          CASE k = "p1" -> p1 [] k = "p2" -> p2 [] OTHER -> p3]))) :
        sc \in Scopes, p1 \in {Str(A), Str(B)},
        p2 \in {Float64(<<"3">>), Float64(<<"7">>), Float64(<<"9">>), Str(A)},
        p3 \in {Bool(<<"true">>), Bool(<<"false">>)}}
\* the backend's verdict on the condition that starts at unit i and runs to the
\* end of the text
Verdict(text, i, r, args) ==
    LET e == POr(Lex(text, 1), i, r, args) IN
    IF e.ok /\ e.i = Len(Lex(text, 1)) + 1 THEN [ok |-> TRUE, val |-> e.val]
    ELSE [ok |-> FALSE, val |-> Fail.val]

\* C23: the end-to-end query with parameters [integer, boolean] compiles,
\* without error, to a predicate that the backend evaluates like the reference
\* predicate on every row, followed by ORDER BY CAST(p2 as numeric) DESC
\* LIMIT n; and the condition of the statement _Select builds from it holds of
\* a row exactly when the row is of the caller's tenant and collection and
\* the reference predicate holds of it.
C23_EndToEnd ==
    \A str \in {A, B}, n \in {"3", "7"}, param \in EndToEndParams :
        (compile.ast = EndToEnd(str, n) /\ compile.param = param) =>
            LET s == compile.q.s
                k == Len(compile.q.s) - Len(ReferenceClauses(n))
                ref == Reference(str, param[1].v[1], param[2].v[1])
                stmt == SelectStatement(Len(param), compile.q.s)
                cond == SubSeq(stmt, 1, Len(stmt) - Len(ReferenceClauses(n)) - 1)
            IN /\ compile.q.errors = <<>> /\ ~compile.q.panic
               /\ SubSeq(s, k + 1, Len(s)) = ReferenceClauses(n)
               /\ stmt[Len(stmt)] = ";"
               /\ \A r \in EndToEndRows :
                     /\ Verdict(ref, 1, r, <<>>).ok
                     /\ Verdict(SubSeq(s, 1, k), 1, r, <<>>) = Verdict(ref, 1, r, <<>>)
                     /\ \A sc \in Scopes :
                          LET v == Verdict(cond, Len(SelectPrefix) + 1, r,
                                           param \o <<Int64(sc[1]), Str(<<sc[2]>>)>>)
                          IN /\ v.ok
                             /\ IsTrue(v.val) <=>
                                   /\ r.account_id = sc[1] /\ r.collection = sc[2]
                                   /\ IsTrue(Verdict(ref, 1, r, <<>>).val)

C23_Witness ==
    /\ compile.ast = EndToEnd(A, "7")
    /\ compile.param = <<GoInt(<<"3">>), Bool(<<"true">>)>>
    /\ \E r \in EndToEndRows :
          IsTrue(Verdict(SubSeq(compile.q.s, 1, Len(compile.q.s) - 15), 1, r, <<>>).val)
    /\ \E r \in EndToEndRows :
          IsFalse(Verdict(SubSeq(compile.q.s, 1, Len(compile.q.s) - 15), 1, r, <<>>).val)

\* The literal operand that denotes the value v.
LiteralFor(v) ==
    CASE v.t = "string" -> StringNode(v.v)
      [] v.t \in {"float64", "int", "int64", "uint64"} -> NumberNode(v.v[1])
      [] v.t = "bool" -> BooleanNode(v.v[1])
      [] OTHER -> NullNode

\* C30: a predicate `path op $N`, with $N bound to a string, a float, an
\* integer of any integer type, a boolean or null, compiles without error to
\* the SQL that `path op literal` compiles to, literal denoting the bound value.
C30_PlaceholderDispatch ==
    (CompiledOnePredicate /\ CompiledPredicate[3].up[1].rule = "placeholder") =>
        /\ compile.q.errors = <<>> /\ ~compile.q.panic
        /\ compile.q.s
             = pgProcess(<<OnePredicate(Predicate(
                              CompiledPredicate[1].text, CompiledPredicate[2].text[1],
                              LiteralFor(compile.param[Atoi(CompiledPredicate[3].up[1].text[2])])))>>,
                         <<>>).s

\* The stored instances of a collection whose field has the value v.
Having(coll, field, v) == {y \in mem.storage : y.coll = coll /\ y[field] = v}

CachedKeys(entries) == {entries[i].key : i \in DOMAIN entries}
C27_DeleteReturnsWhatItRemoved ==
    (tx.del.pc = "idle" /\ tx.del.ret = "ok") =>
        {tx.del.results[i] : i \in DOMAIN tx.del.results} = {Decode(r) : r \in tx.del.removed}

\* C28: a Select or SelectByID of another caller, run next to a bulk Insert of
\* d1..dn, observes none or all of d1..dn, and none of them if the Insert
\* fails in the end.
BatchIds == {r.id : r \in tx.ins.st.rows}
Observed ==
    IF op.name \in {"Select", "SelectByID"} /\ op.ret = "ok"
    THEN {Atoi(op.results[i].v["$id"].v[1]) : i \in DOMAIN op.results}
    ELSE {}
C28_NoPartialBatch ==
    (Observed \cap BatchIds) # {} =>
        /\ tx.ins.pc = "idle"
        /\ tx.ins.ret = "ok"
        /\ Cardinality(BatchIds) = IF tx.ins.arg.t = "slice" THEN Len(tx.ins.arg.v) ELSE 1
        /\ BatchIds \subseteq {r.id : r \in rows}
        /\ op.name = "Select" => BatchIds \subseteq Observed

\* C29: a successful UpdateByID(id, d) replaces the whole body of the row id
\* of the caller's tenant and collection with d, its "$id" stripped: no field
\* of the previous body survives unless d has it; the row keeps its id,
\* tenant and collection, and every other row of the store is unchanged.
NewBody(d) == Marshal(GoMap(MapDelete(d.v, "$id")))
C29_UpdateFrame ==
    [][(op'.name = "UpdateByID" /\ op'.ret = "ok") =>
          /\ rows' \ rows \subseteq
                {Row(r.id, r.account_id, r.collection, NewBody(op'.arg)) :
                    r \in ByID(rows, op'.account, op'.collection, op'.id)}
          /\ rows \ rows' \subseteq ByID(rows, op'.account, op'.collection, op'.id)
          /\ \A r \in ByID(rows, op'.account, op'.collection, op'.id) :
                /\ Row(r.id, r.account_id, r.collection, NewBody(op'.arg)) \in rows'
                /\ \A n \in ByIDAnyTenant(rows', 0, "", r.id) :
                      DOMAIN n.object.v \subseteq DOMAIN op'.arg.v
          /\ Cardinality(rows') = Cardinality(rows)]_vars
\* row 1 of tenant 1, inserted with a field x, holds {"y": "b"} after
\* UpdateByID(1, "c1", 1, {"y": "b", "$id": 7}); row 2 of tenant 2 is as inserted
C29_Witness ==
    /\ op.name = "UpdateByID" /\ op.ret = "ok" /\ op.id = 1
    /\ op.account = 1 /\ op.collection = "c1"
    /\ rows = {Row(1, 1, "c1", Marshal(GoMap([k \in {"y"} |-> Str(B)]))),
               Row(2, 2, "c1", Marshal(GoMap([k \in {"x"} |-> Str(A)])))}

\* C31: compiling a tree with k placeholders whose number is outside the
\* bound parameter list gives exactly k errors, wherever the placeholders
\* stand: in conjuncts, in disjuncts or in nested groups.
RECURSIVE OutsideIn(_, _)
RECURSIVE Outside(_, _)
OutsideIn(nodes, n) ==
    IF nodes = <<>> THEN 0 ELSE Outside(Head(nodes), n) + OutsideIn(Tail(nodes), n)
Outside(node, n) ==
    IF node.rule = "placeholder"
    THEN (IF Atoi(node.text[2]) \in 1..n THEN 0 ELSE 1)
    ELSE OutsideIn(node.up, n)
C31_BindErrorsAccumulated ==
    compile.ast.rule = "e" =>
        /\ ~compile.q.panic
        /\ Len(compile.q.errors) = Outside(compile.ast, Len(compile.param))
\* the same for the numbers beyond the list only
C31_TooLargeAccumulated ==
    (compile.ast.rule = "e" /\ ~compile.q.panic) =>
        Len(compile.q.errors) = Outside(compile.ast, Len(compile.param))

\* The truth value of a tree whose predicates are the constants true and
\* false: a disjunction holds when one of its conjunctions does, a
\* conjunction when all its terms do, a group when its disjunction does.
RECURSIVE Truth(_)
Truth(node) ==
    CASE node.rule \in {"e", "sub"} -> Truth(node.up[1])
      [] node.rule = "e1" -> \E i \in DOMAIN node.up : Truth(node.up[i])
      [] node.rule = "e2" -> \A i \in DOMAIN node.up : Truth(node.up[i])
      [] node.rule = "e3" -> IF Len(node.up) = 1 THEN Truth(node.up[1]) ELSE Truth(node.up[2])
      [] node.rule = "expression" -> node.text = <<"true">>
      [] OTHER -> FALSE
CompiledTruth == \E b1 \in TruthValues, b2 \in TruthValues, b3 \in TruthValues, b4 \in TruthValues :
                     compile.ast \in TruthShapes(b1, b2, b3, b4)
\* C32: the compiled expression joins terms with AND, conjunctions with OR
\* and wraps the compilation of a group's whole disjunction in parentheses,
\* never an empty pair, at any depth: the backend gives it the truth value
\* of the tree, whatever the truth values of the predicates.
C32_GroupingPreserved ==
    CompiledTruth =>
        /\ compile.q.errors = <<>> /\ ~compile.q.panic
        /\ \A i \in 1..(Len(compile.q.s) - 1) :
              ~(compile.q.s[i] = "(" /\ compile.q.s[i + 1] = ")")
        /\ Verdict(compile.q.s, 1, ProbeRow, <<>>).ok
        /\ IsTrue(Verdict(compile.q.s, 1, ProbeRow, <<>>).val) <=> Truth(compile.ast)
        /\ IsFalse(Verdict(compile.q.s, 1, ProbeRow, <<>>).val) <=> ~Truth(compile.ast)
\* (true OR false) AND false is false, where true OR false AND false would
\* be true
C32_Witness ==
    /\ compile.ast \in TruthShapes("true", "false", "false", "false")
    /\ Len(compile.ast.up[1].up[1].up) = 2
    /\ Len(compile.ast.up[1].up[1].up[1].up) = 3
    /\ IsFalse(Verdict(compile.q.s, 1, ProbeRow, <<>>).val)
    /\ compile.q.s = <<"(", "(", "(", "true", "OR", "false", ")", ")", "AND", "false", ")">>

\* C33: a bulk Insert that ends abnormally part-way through the batch, an
\* element that is not a JSON object making it panic, commits no row it
\* inserted before.
C33_NoCommitOnAbnormalExit ==
    [][(op'.name = "Insert" /\ op'.arg.t = "slice" /\ op'.ret = "panic") =>
          rows' = rows]_vars

\* C34: every predicate, whatever its path, operator and operand (a literal,
\* null included, or a placeholder bound to a value of any type, null and
\* unsupported types included), compiles to a comparison of the path,
\* possibly cast, with the operand, or to an IS NULL or IS NOT NULL test,
\* never to the bare path.
C34_CompleteTest ==
    (CompiledOnePredicate /\ compile.q.errors = <<>> /\ ~compile.q.panic) =>
        LET s == CompiledSQL
            n == Len(CompiledSQL)
            path == pgProcessPath(CompiledPredicate[1].up, <<>>).s
            o == CompiledPredicate[2].text[1]
        IN \/ /\ n > Len(path) + 1
              /\ SubSeq(s, 1, Len(path)) = path
              /\ s[Len(path) + 1] = o
           \/ /\ n > Len(path) + 5
              /\ SubSeq(s, 1, 2) = <<"CAST", "(">>
              /\ SubSeq(s, 3, Len(path) + 2) = path
              /\ s[Len(path) + 3] = "as" /\ s[Len(path) + 5] = ")"
              /\ s[Len(path) + 6] = o
           \/ s = path \o <<"IS", "NULL">>
           \/ s = path \o <<"IS", "NOT", "NULL">>

\* C35: at most one processWsdl run per SOAP remote endpoint is in flight: from
\* the commit that starts processing until the status is Success or Failed, no
\* update of the endpoint is accepted.
C35_OneRunInFlight == Cardinality(InFlight(soap)) <= 1

\* C36: when processWsdl has returned, the persisted status of the endpoint is
\* Success or Failed, neither Pending nor Processing, also when a status-update
\* transaction of processWsdl failed.
C36_StatusSettled ==
    (soap.row = "present" /\ InFlight(soap) = {})
        => soap.status \in {RemoteEndpointStatusSuccess, RemoteEndpointStatusFailed}

\* C37: two sessions that call AddTopic for the same topic at once leave at most
\* one push channel of that name, and once both calls have returned, with no
\* failure of the database, both devices are attached to it.
C37_OneChannel ==
    /\ Len(push.channels) <= 1
    /\ (\A s \in Sessions : push.call[s].pc = "done" /\ ~push.call[s].faulted)
        => \A s \in Sessions : push.devices[s] = 1

\* C37, last part: no step decreases the expiry of an existing channel.
C37_ExpiryNeverDecreased ==
    [][\A id \in DOMAIN push.channels : push'.channels[id] >= push.channels[id]]_vars

\* C38: when the script result holds a route with an empty _name, ParseRoutes
\* returns an error or leaves the route out: a router it has built holds no
\* route without a name.
C38_RoutesNamed ==
    /\ (router.ret = "nil" /\ \E i \in DOMAIN router.jsRoutes : router.jsRoutes[i].Name = "")
        => Len(router.MUXRouter.routes) < Len(router.jsRoutes)
    /\ \A i \in DOMAIN router.MUXRouter.routes : router.MUXRouter.routes[i].name # ""

\* C39: on an Insert or Update notification on soap_remote_endpoints the
\* listener refreshes the jar file of the endpoint that was saved, and no
\* other: <id>.jar is written if and only if the stored thumbprint differs from
\* the checksum of the file; a notification on another table changes no file.
Refreshed(db, files, id) ==
    LET hexsum == IF files[id] = NoFile THEN "" ELSE Md5Hex(files[id])
    IN  IF /\ db[id].generated_jar_thumbprint # "NULL"
           /\ db[id].generated_jar_thumbprint # hexsum
        THEN [files EXCEPT ![id] = db[id].generated_jar]
        ELSE files

C39_NotifiedEndpointRefreshed ==
    [][(jar.queue # <<>> /\ jar'.queue = <<>>) =>
        LET n == jar.queue[1]
        IN  /\ (n.Table = soapRemoteEndpoints /\ n.Event \in {"Update", "Insert"})
                => jar'.files = Refreshed(jar.db, jar.files, n.Messages[1])
            /\ n.Table # soapRemoteEndpoints => jar'.files = jar.files]_vars

====
